---- MODULE Spec2Model ----
(***************************************************************************)
(* A model of the Worm Python enforcement layer (src/src/worm): the import *)
(* gate, the restricted subprocess wrappers, the seccomp BPF filter, the   *)
(* filesystem sandbox, the removable layers and the resource limits.       *)
(*                                                                         *)
(* Every subsystem has its own variable and its own specification          *)
(* (SpecImport, SpecSubprocess, ...); a specification leaves the other     *)
(* subsystems' variables at their initial values.  Python strings are TLA+ *)
(* strings, handled character by character with Len, SubSeq and \o.        *)
(***************************************************************************)
EXTENDS Integers, Sequences, FiniteSets, TLC

VARIABLES imp, sp, sc, fs, ly, rl, proc, pol, nb, au, fol, sn, dec, ln, sm

\* ------------------------------------------------------------------------
\* String helpers (Python str methods)
\* ------------------------------------------------------------------------

\* s.startswith(p)
startswith(s, p) == Len(p) <= Len(s) /\ SubSeq(s, 1, Len(p)) = p

\* the character s[i] (1-based) as a one-character string
CharAt(s, i) == SubSeq(s, i, i)

\* p in s  (substring containment)
contains(s, p) ==
    \E i \in 1..(Len(s) - Len(p) + 1) : SubSeq(s, i, i + Len(p) - 1) = p

\* every string of at most n characters over an alphabet of one-character strings
RECURSIVE Strs(_, _)
Strs(alphabet, n) ==
    IF n = 0 THEN {""}
    ELSE LET shorter == Strs(alphabet, n - 1)
         IN  shorter \cup {s \o c : s \in shorter, c \in alphabet}

\* ------------------------------------------------------------------------
\* hooks/import_restrictions.py
\* ------------------------------------------------------------------------

BLOCKED_MODULES ==
    { "socket", "socketserver", "http", "http.client", "http.server",
      "urllib", "urllib.request", "urllib.parse", "urllib3", "requests",
      "aiohttp", "httpx", "ftplib", "poplib", "imaplib", "smtplib",
      "telnetlib", "xmlrpc", "xmlrpc.client", "xmlrpc.server" }

\* A plausible slip in find_spec: the sub-module test forgets the dot.
find_spec_NoDot(fullname) ==
    IF fullname \in BLOCKED_MODULES THEN "WormImportError"
    ELSE IF \E blocked \in BLOCKED_MODULES : startswith(fullname, blocked)
         THEN "WormImportError"
         ELSE "None"

\* NetworkModuleBlocker.find_spec: raises WormImportError or returns None
find_spec(fullname) ==
    IF fullname \in BLOCKED_MODULES THEN "WormImportError"
    ELSE IF \E blocked \in BLOCKED_MODULES : startswith(fullname, blocked \o ".")
         THEN "WormImportError"
         ELSE "None"

\* is_module_allowed: returns False or True
is_module_allowed(module_name) ==
    IF module_name \in BLOCKED_MODULES THEN "False"
    ELSE IF \E blocked \in BLOCKED_MODULES : startswith(module_name, blocked \o ".")
         THEN "False"
         ELSE "True"

\* Names handed to the gate: a blocked or harmless base name followed by up
\* to MaxSuffixLen characters ("socket", "sockets", "socket.x", "json.s", ...).
MaxSuffixLen == 2
ImportBases == BLOCKED_MODULES \cup {"json", "math", "os", "sock", "htt", "subprocess"}
ImportNames == {b \o s : b \in ImportBases, s \in Strs({".", "s", "x"}, MaxSuffixLen)}

\* No call of the gate is in progress.
ImpIdle == imp = [op |-> "none", name |-> "", result |-> "none"]

\* A caller is about to hand some name to the gate.
ImpInit == imp \in {[op |-> "input", name |-> n, result |-> "none"] : n \in ImportNames}

FindSpec ==
    /\ imp.op = "input"
    /\ imp' = [op |-> "find_spec", name |-> imp.name, result |-> find_spec(imp.name)]
    /\ UNCHANGED <<sp, sc, fs, ly, rl, proc, pol, nb, au, fol, sn, dec, ln, sm>>

IsModuleAllowed ==
    /\ imp.op = "input"
    /\ imp' = [op |-> "is_module_allowed", name |-> imp.name,
               result |-> is_module_allowed(imp.name)]
    /\ UNCHANGED <<sp, sc, fs, ly, rl, proc, pol, nb, au, fol, sn, dec, ln, sm>>

\* ------------------------------------------------------------------------
\* modules/restricted_subprocess.py
\* ------------------------------------------------------------------------

BLOCKED_COMMANDS ==
    { "curl", "wget", "nc", "netcat", "telnet", "ssh", "scp", "sftp",
      "ftp", "ping", "nmap", "nslookup", "dig", "host", "traceroute",
      "tracert", "route", "netstat", "ss", "ip", "ifconfig", "tcpdump",
      "wireshark", "iptables", "firewall-cmd", "ufw" }

BLOCKED_PATTERNS == <<"://", "http", "https", "ftp", "ssh">>

UpperLetters == "ABCDEFGHIJKLMNOPQRSTUVWXYZ"
LowerLetters == "abcdefghijklmnopqrstuvwxyz"

\* str.lower(), on ASCII text
RECURSIVE lower(_)
lower(s) ==
    IF s = "" THEN ""
    ELSE LET c == CharAt(s, 1)
             up == {i \in 1..26 : CharAt(UpperLetters, i) = c}
         IN  (IF up = {} THEN c ELSE CharAt(LowerLetters, CHOOSE i \in up : TRUE))
                \o lower(Tail(s))

\* ' '.join(str(x) for x in items)
RECURSIVE join(_, _)
join(sep, items) ==
    IF items = <<>> THEN ""
    ELSE IF Len(items) = 1 THEN items[1]
    ELSE items[1] \o sep \o join(sep, Tail(items))

\* s.split('/')[-1]: the text after the last '/'
LastSegment(s) ==
    LET slashes == {i \in 1..Len(s) : CharAt(s, i) = "/"}
    IN  IF slashes = {} THEN s
        ELSE SubSeq(s, (CHOOSE i \in slashes : \A j \in slashes : j <= i) + 1, Len(s))

\* s.split()[0] if s.split() else '': the first whitespace-delimited word
FirstWord(s) ==
    LET ink == {i \in 1..Len(s) : CharAt(s, i) # " "}
    IN  IF ink = {} THEN ""
        ELSE LET b == CHOOSE i \in ink : \A j \in ink : i <= j
                 gaps == {i \in b..Len(s) : CharAt(s, i) = " "}
                 e == IF gaps = {} THEN Len(s)
                      ELSE (CHOOSE i \in gaps : \A j \in gaps : i <= j) - 1
             IN  SubSeq(s, b, e)

\* shlex.shlex(s, posix=True) with whitespace_split and no commenters, as
\* shlex.split sets it up.  The lexer state is that of shlex.read_token:
\* st is ' ' (between tokens), 'a' (in a word), a quote, or the escape
\* character; esc is escapedstate; the tokens read so far are in parts.
ShlexStart ==
    [st |-> " ", esc |-> " ", tok |-> "", quoted |-> FALSE, parts |-> <<>>]

ShlexQuotes == {"'", "\""}

ShlexStep(z, c) ==
    IF z.st = " " THEN
        IF c = " " THEN z
        ELSE IF c = "\\" THEN [z EXCEPT !.esc = "a", !.st = c]
        ELSE IF c \in ShlexQuotes THEN [z EXCEPT !.st = c]
        ELSE [z EXCEPT !.tok = c, !.st = "a"]
    ELSE IF z.st \in ShlexQuotes THEN
        IF c = z.st THEN [z EXCEPT !.quoted = TRUE, !.st = "a"]
        ELSE IF c = "\\" /\ z.st = "\"" THEN
            [z EXCEPT !.quoted = TRUE, !.esc = z.st, !.st = c]
        ELSE [z EXCEPT !.quoted = TRUE, !.tok = z.tok \o c]
    ELSE IF z.st = "\\" THEN
        [z EXCEPT !.tok = IF z.esc \in ShlexQuotes /\ c # z.st /\ c # z.esc
                          THEN z.tok \o z.st \o c
                          ELSE z.tok \o c,
                  !.st = z.esc]
    ELSE \* z.st = "a"
        IF c = " " THEN
            [z EXCEPT !.st = " ", !.tok = "", !.quoted = FALSE,
                      !.parts = Append(z.parts, z.tok)]
        ELSE IF c \in ShlexQuotes THEN [z EXCEPT !.st = c]
        ELSE IF c = "\\" THEN [z EXCEPT !.esc = "a", !.st = c]
        ELSE [z EXCEPT !.tok = z.tok \o c]

RECURSIVE ShlexScan(_, _, _)
ShlexScan(s, i, z) ==
    IF i <= Len(s) THEN ShlexScan(s, i + 1, ShlexStep(z, CharAt(s, i)))
    ELSE IF z.st \in ShlexQuotes \/ z.st = "\\" THEN
        [err |-> TRUE, parts |-> <<>>]     \* ValueError: no closing quotation / no escaped character
    ELSE IF z.st = "a" THEN [err |-> FALSE, parts |-> Append(z.parts, z.tok)]
    ELSE [err |-> FALSE, parts |-> z.parts]

\* shlex.split(s)
shlex_split(s) == ShlexScan(s, 1, ShlexStart)

\* A command is a list of argument strings or one shell-style string.
ListCmd(items) == [kind |-> "list", items |-> items, text |-> ""]
StrCmd(text) == [kind |-> "str", items |-> <<>>, text |-> text]
NoCmd == [kind |-> "absent", items |-> <<>>, text |-> ""]

\* cmd_str of _check_command_safety
cmd_str(cmd) == IF cmd.kind = "list" THEN join(" ", cmd.items) ELSE cmd.text

\* base_cmd of _check_command_safety
base_cmd(cmd) ==
    IF cmd.kind = "list" THEN
        IF cmd.items # <<>> THEN LastSegment(cmd.items[1]) ELSE ""
    ELSE LET lexed == shlex_split(cmd.text)
         IN  IF ~lexed.err THEN
                 IF lexed.parts # <<>> THEN LastSegment(lexed.parts[1]) ELSE ""
             ELSE FirstWord(cmd.text)       \* the bare except: branch

\* _check_command_safety: raises NetworkCommandError or returns None
check_command_safety(cmd) ==
    IF base_cmd(cmd) \in BLOCKED_COMMANDS THEN "NetworkCommandError"
    ELSE IF \E k \in 1..Len(BLOCKED_PATTERNS) :
                contains(lower(cmd_str(cmd)), BLOCKED_PATTERNS[k])
         THEN "NetworkCommandError"
         ELSE "None"

\* The wrappers run, call, check_call, check_output and Popen
Wrappers == {"run", "call", "check_call", "check_output", "Popen"}

\* How a caller hands the command to a wrapper: wrapper(cmd) or wrapper(args=cmd)
Styles == {"positional", "keyword"}

\* Shell-style strings: up to MaxAtoms pieces, among them a blocked command,
\* a harmless one, the path separator, a blank, a quote and a protocol marker.
MaxAtoms == 3
CmdAtoms == {"curl", "echo", "/", " ", "'", "HTTP"}

RECURSIVE AtomStrs(_)
AtomStrs(n) ==
    IF n = 0 THEN {""}
    ELSE LET shorter == AtomStrs(n - 1)
         IN  shorter \cup {s \o a : s \in shorter, a \in CmdAtoms}

\* Argument lists: up to MaxArgs arguments.
MaxArgs == 2
CmdArgs == {"curl", "/usr/bin/curl", "echo", "hi", "Curl", "HTTP://x"}

RECURSIVE ArgLists(_)
ArgLists(n) ==
    IF n = 0 THEN {<<>>}
    ELSE LET shorter == ArgLists(n - 1)
         IN  shorter \cup {Append(l, a) : l \in shorter, a \in CmdArgs}

Commands ==
    {StrCmd(t) : t \in AtomStrs(MaxAtoms)} \cup {ListCmd(l) : l \in ArgLists(MaxArgs)}

\* No call is in progress.
SpIdle ==
    sp = [op |-> "none", cmd |-> NoCmd, style |-> "none", result |-> "none",
          real_calls |-> <<>>]

\* A caller holds a command and is about to make a call with it.
SpInit ==
    sp \in {[op |-> "input", cmd |-> c, style |-> "none", result |-> "none",
             real_calls |-> <<>>] : c \in Commands}

\* A direct call of _check_command_safety(cmd)
CheckCommandSafety ==
    /\ sp.op = "input"
    /\ sp' = [sp EXCEPT !.op = "_check_command_safety", !.style = "positional",
                        !.result = check_command_safety(sp.cmd)]
    /\ UNCHANGED <<imp, sc, fs, ly, rl, proc, pol, nb, au, fol, sn, dec, ln, sm>>

\* The positional arguments and the args keyword a wrapper receives
PosArgs(style, cmd) == IF style = "positional" THEN <<cmd>> ELSE <<>>
KwArgs(style, cmd) == IF style = "keyword" THEN cmd ELSE NoCmd

\* What the wrapper's guard "if args: _check_command_safety(args[0])" yields
WrapperCheck(args) ==
    IF args # <<>> THEN check_command_safety(args[1]) ELSE "None"

\* What the real primitive does with an allowed command: it returns its
\* result (a CompletedProcess, a return code, the output or a Popen object)
\* or raises (a failing check_call, an executable that is not there)
RealOutcomes == {"result", "CalledProcessError", "FileNotFoundError"}

\* _real_subprocess.<w>(*args): the keyword arguments left behind
real_call_NoKwargs(w, args, kwargs, outcome) ==
    [fn |-> w, args |-> args, kwargs |-> NoCmd, outcome |-> outcome]

\* _real_subprocess.<w>(*args, **kwargs), and what it came to
real_call(w, args, kwargs, outcome) ==
    [fn |-> w, args |-> args, kwargs |-> kwargs, outcome |-> outcome]

\* wrapper(*args, **kwargs): the check, then the real primitive with the
\* caller's arguments; the wrapper returns what the primitive returns and
\* lets through what it raises.
Wrapper(w, style, outcome) ==
    /\ sp.op = "input"
    /\ LET args == PosArgs(style, sp.cmd)
           kwargs == KwArgs(style, sp.cmd)
       IN  IF WrapperCheck(args) = "NetworkCommandError"
           THEN sp' = [sp EXCEPT !.op = w, !.style = style,
                                 !.result = "NetworkCommandError"]
           ELSE LET made == real_call(w, args, kwargs, outcome)
                IN  sp' = [sp EXCEPT !.op = w, !.style = style,
                                     !.result = made.outcome,
                                     !.real_calls = <<made>>]
    /\ UNCHANGED <<imp, sc, fs, ly, rl, proc, pol, nb, au, fol, sn, dec, ln, sm>>

\* ------------------------------------------------------------------------
\* seccomp/network_filter.py
\* ------------------------------------------------------------------------

\* A 32-bit word is the pair of its 16-bit halves <<high, low>>.
Word(hi, lo) == <<hi % 65536, lo % 65536>>

SECCOMP_RET_ALLOW == Word(32767, 0)       \* 0x7fff0000
SECCOMP_RET_KILL == Word(0, 0)            \* 0x00000000
SECCOMP_RET_ERRNO == Word(5, 0)           \* 0x00050000
AUDIT_ARCH_X86_64 == Word(49152, 62)      \* 0xc000003e
AUDIT_ARCH_I386 == Word(16384, 3)         \* 0x40000003, a 32-bit caller on the same kernel

\* The values of the BLOCKED_SYSCALLS dict, in its insertion order
BLOCKED_SYSCALLS == <<41, 42, 43, 44, 45, 46, 47, 49, 50, 53, 54, 55, 288, 307, 299>>

\* a | b on unsigned integers
RECURSIVE BitOr(_, _)
BitOr(a, b) ==
    IF a = 0 THEN b
    ELSE IF b = 0 THEN a
    ELSE 2 * BitOr(a \div 2, b \div 2) + (IF a % 2 = 1 \/ b % 2 = 1 THEN 1 ELSE 0)

\* v | n for a word v and a small integer n
WordOr(v, n) == Word(v[1], BitOr(v[2], n))

\* sock_filter(code, jt, jf, k): c_uint16, c_uint8, c_uint8, c_uint32
sock_filter(code, jt, jf, k) ==
    [code |-> code % 65536, jt |-> jt % 256, jf |-> jf % 256, k |-> k]

\* A plausible slip in the program: the deny return kills instead of failing the call.
BuildFilters_Kill ==
    LET n == Len(BLOCKED_SYSCALLS)
    IN  <<sock_filter(32, 0, 0, Word(0, 4)),
          sock_filter(21, 0, n + 1, AUDIT_ARCH_X86_64),
          sock_filter(32, 0, 0, Word(0, 0))>>
        \o [i \in 1..n |-> sock_filter(21, 0, n - i, Word(0, BLOCKED_SYSCALLS[i]))]
        \o <<sock_filter(6, 0, 0, SECCOMP_RET_KILL),
             sock_filter(6, 0, 0, SECCOMP_RET_ALLOW)>>

\* The list `filters` enable_network_blocking builds: load the architecture,
\* compare it, load the syscall number, one comparison per blocked syscall
\* (jt = 0, jf = remaining), then the two returns.
BuildFilters ==
    LET n == Len(BLOCKED_SYSCALLS)
    IN  <<sock_filter(32, 0, 0, Word(0, 4)),
          sock_filter(21, 0, n + 1, AUDIT_ARCH_X86_64),
          sock_filter(32, 0, 0, Word(0, 0))>>
        \o [i \in 1..n |-> sock_filter(21, 0, n - i, Word(0, BLOCKED_SYSCALLS[i]))]
        \o <<sock_filter(6, 0, 0, WordOr(SECCOMP_RET_ERRNO, 1)),
             sock_filter(6, 0, 0, SECCOMP_RET_ALLOW)>>

\* The kernel's run of a classic BPF program over seccomp_data (nr at offset
\* 0, arch at offset 4).  pc is 1-based; A is the accumulator.  0x20 loads
\* the word at offset k, 0x15 skips jt instructions when A = k and jf
\* otherwise, 0x06 returns k.
RECURSIVE RunBPF(_, _, _, _)
RunBPF(prog, data, pc, A) ==
    IF pc > Len(prog) THEN SECCOMP_RET_KILL
    ELSE LET ins == prog[pc]
         IN  IF ins.code = 32 THEN
                 RunBPF(prog, data, pc + 1,
                        IF ins.k = Word(0, 4) THEN data.arch ELSE Word(0, data.nr))
             ELSE IF ins.code = 21 THEN
                 RunBPF(prog, data, pc + 1 + (IF A = ins.k THEN ins.jt ELSE ins.jf), A)
             ELSE ins.k

\* the action part of a filter's return value (its high half, SECCOMP_RET_ACTION_FULL)
RetAction(ret) == Word(ret[1], 0)
\* its data part (the errno of SECCOMP_RET_ERRNO)
RetData(ret) == ret[2]

\* Syscall numbers 0..MaxSyscallNr reach the filter.
MaxSyscallNr == 320

ScIdle == sc = [op |-> "none", arch |-> Word(0, 0), nr |-> 0, ret |-> Word(0, 0)]

\* A thread is about to make a syscall.
ScInit ==
    sc \in {[op |-> "input", arch |-> a, nr |-> n, ret |-> Word(0, 0)] :
               a \in {AUDIT_ARCH_X86_64, AUDIT_ARCH_I386}, n \in 0..MaxSyscallNr}

\* The syscall runs through the program enable_network_blocking builds.
FilterSyscall ==
    /\ sc.op = "input"
    /\ sc' = [sc EXCEPT !.op = "filtered",
                        !.ret = RunBPF(BuildFilters, [nr |-> sc.nr, arch |-> sc.arch], 1, Word(0, 0))]
    /\ UNCHANGED <<imp, sp, fs, ly, rl, proc, pol, nb, au, fol, sn, dec, ln, sm>>

\* ------------------------------------------------------------------------
\* security/filesystem_sandbox.py
\* ------------------------------------------------------------------------

\* s.split('/')
RECURSIVE SplitSlash(_)
SplitSlash(s) ==
    LET slashes == {i \in 1..Len(s) : CharAt(s, i) = "/"}
    IN  IF slashes = {} THEN <<s>>
        ELSE LET i == CHOOSE k \in slashes : \A j \in slashes : k <= j
             IN  <<SubSeq(s, 1, i - 1)>> \o SplitSlash(SubSeq(s, i + 1, Len(s)))

\* The host file system the sandbox runs on: the working directory and the
\* symbolic links (the link's own canonical components :> its target).
\* /tmp/allowed/link leads out of /tmp/allowed; /tmp/loop points at itself.
Cwd == "/tmp"
Symlinks ==
    (<<"tmp", "allowed", "link">> :> "/tmp/allowed-evil") @@
    (<<"tmp", "loop">> :> "/tmp/loop")

\* The directories that exist, by canonical components
Nodes == {<<>>, <<"tmp">>, <<"tmp", "allowed">>, <<"tmp", "allowed-evil">>}

\* The character that stands for the NUL byte in a path
NUL == "~"

\* How many links os.path.realpath follows before a loop is certain
MaxLinkDepth == 2

\* os.path.realpath over the components still to read: '' and '.' are
\* skipped, '..' drops the last component, a symbolic link is replaced by its
\* (absolute) target; a link met again is a loop.
RECURSIVE JoinRealPath(_, _, _)
JoinRealPath(cur, rest, fuel) ==
    IF rest = <<>> THEN [ok |-> TRUE, parts |-> cur]
    ELSE LET name == Head(rest)
             more == Tail(rest)
         IN  IF name = "" \/ name = "." THEN JoinRealPath(cur, more, fuel)
             ELSE IF name = ".." THEN
                 JoinRealPath(IF cur = <<>> THEN cur ELSE SubSeq(cur, 1, Len(cur) - 1),
                              more, fuel)
             ELSE LET new == Append(cur, name)
                  IN  IF new \in DOMAIN Symlinks THEN
                          IF fuel = 0 THEN [ok |-> FALSE, parts |-> <<>>]
                          ELSE JoinRealPath(<<>>, SplitSlash(Symlinks[new]) \o more, fuel - 1)
                      ELSE JoinRealPath(new, more, fuel)

\* Path(filepath).resolve(): the canonical components, or the failure of
\* the call (ValueError on an embedded NUL byte, RuntimeError on a symlink
\* loop), which leaves no canonical path.
Resolve(filepath) ==
    IF contains(filepath, NUL) THEN [ok |-> FALSE, parts |-> <<>>]
    ELSE JoinRealPath(<<>>,
                      IF startswith(filepath, "/") THEN SplitSlash(filepath)
                      ELSE SplitSlash(Cwd) \o SplitSlash(filepath),
                      MaxLinkDepth)

\* A plausible slip in the containment test: comparing the paths as text.
relative_to_StringPrefix(path, other) ==
    startswith("/" \o join("/", path), "/" \o join("/", other))

\* filepath.relative_to(other) succeeds (no ValueError): other's components
\* are the leading components of path
relative_to(path, other) ==
    Len(other) <= Len(path) /\ SubSeq(path, 1, Len(other)) = other

\* FilesystemSandbox.__init__: the roots are resolved once, here
FilesystemSandbox(mode, allowed_paths, denied_paths) ==
    [mode |-> mode,
     allowed_paths |-> [i \in 1..Len(allowed_paths) |-> Resolve(allowed_paths[i]).parts],
     denied_paths |-> [i \in 1..Len(denied_paths) |-> Resolve(denied_paths[i]).parts]]

\* A plausible slip in _is_path_allowed: a path that cannot be resolved is let through.
is_path_allowed_FailOpen(self, filepath) ==
    LET r == Resolve(filepath)
    IN  IF ~r.ok THEN TRUE
        ELSE IF self.mode = "blacklist" THEN
            ~\E i \in 1..Len(self.denied_paths) : relative_to(r.parts, self.denied_paths[i])
        ELSE IF self.mode = "whitelist" THEN
            \E i \in 1..Len(self.allowed_paths) : relative_to(r.parts, self.allowed_paths[i])
        ELSE TRUE

\* FilesystemSandbox._is_path_allowed
is_path_allowed(self, filepath) ==
    LET r == Resolve(filepath)
    IN  IF ~r.ok THEN FALSE
        ELSE IF self.mode = "blacklist" THEN
            ~\E i \in 1..Len(self.denied_paths) : relative_to(r.parts, self.denied_paths[i])
        ELSE IF self.mode = "whitelist" THEN
            \E i \in 1..Len(self.allowed_paths) : relative_to(r.parts, self.allowed_paths[i])
        ELSE TRUE

\* A plausible slip in the write test: '+' is forgotten.
is_write_NoPlus(mode) == \E m \in {"w", "a", "x"} : contains(mode, m)

\* is_write = any(m in mode for m in ['w', 'a', 'x', '+'])
is_write(mode) == \E m \in {"w", "a", "x", "+"} : contains(mode, m)

\* FilesystemSandbox._sandboxed_open: raises FilesystemAccessError, or calls
\* self.original_open(file, mode) and returns what it returns
sandboxed_open(self, file, mode) ==
    IF self.mode = "read_only" /\ is_write(mode) THEN
        [result |-> "FilesystemAccessError", original_open |-> <<>>]
    ELSE IF ~is_path_allowed(self, file) THEN
        [result |-> "FilesystemAccessError", original_open |-> <<>>]
    ELSE [result |-> "forwarded", original_open |-> <<[file |-> file, mode |-> mode]>>]

\* The sandboxes under test, as their constructor arguments
SandboxArgs ==
    { <<"read_only", <<>>, <<>>>>,
      <<"whitelist", <<"/tmp/allowed">>, <<>>>>,
      <<"whitelist", <<"/tmp/allowed/link", "/tmp/allowed/../allowed">>, <<>>>>,
      <<"blacklist", <<>>, <<"/tmp/allowed-evil">>>>,
      <<"blacklist", <<>>, <<"/tmp/allowed", "allowed/link">>>>,
      <<"disabled", <<>>, <<>>>> }

\* Paths handed to open(): absolute paths of up to MaxPathComps components,
\* and a few relative, looping and NUL-holding ones.
MaxPathComps == 3
PathComps == {"tmp", "allowed", "allowed-evil", "link", ".."}

RECURSIVE AbsPaths(_)
AbsPaths(n) ==
    IF n = 0 THEN {"/"}
    ELSE LET shorter == AbsPaths(n - 1)
         IN  shorter \cup {(IF q = "/" THEN q ELSE q \o "/") \o c :
                              q \in shorter, c \in PathComps}

OtherPaths ==
    { "allowed", "allowed-evil", "allowed/link", "../tmp//allowed/.", "",
      "/tmp/loop", "loop/allowed", "/tmp/allowed/" \o NUL }

OpenModes == {"r", "rb", "w", "wb", "a", "x", "r+", "rb+"}

FsIdle ==
    fs = [op |-> "none", self |-> FilesystemSandbox("disabled", <<>>, <<>>),
          file |-> "", mode |-> "", result |-> "none", original_open |-> <<>>]

\* A sandbox has been constructed and a caller is about to open a file.
FsInit ==
    fs \in {[op |-> "input", self |-> FilesystemSandbox(a[1], a[2], a[3]),
             file |-> f, mode |-> m, result |-> "none", original_open |-> <<>>] :
               a \in SandboxArgs, f \in AbsPaths(MaxPathComps) \cup OtherPaths,
               m \in OpenModes}

SandboxedOpen ==
    /\ fs.op = "input"
    /\ LET out == sandboxed_open(fs.self, fs.file, fs.mode)
       IN  fs' = [fs EXCEPT !.op = "_sandboxed_open", !.result = out.result,
                            !.original_open = out.original_open]
    /\ UNCHANGED <<imp, sp, sc, ly, rl, proc, pol, nb, au, fol, sn, dec, ln, sm>>

\* ------------------------------------------------------------------------
\* The process-wide layers: worm.py (setup_worm_environment),
\* hooks/import_restrictions.py (install_import_restrictions),
\* security/filesystem_sandbox.py (enable, disable and the module functions),
\* security/restricted_builtins.py and security/audit_log.py
\* ------------------------------------------------------------------------

\* ly.meta_path          sys.meta_path: the finders, first one first
\* ly.subprocess         what sys.modules['subprocess'] is
\* ly.running            setup_worm_environment has returned: user code runs
\* ly.open               what builtins.open is: 0 for the original open, or
\*                       the number of the FilesystemSandbox whose
\*                       _sandboxed_open it is
\* ly.sandboxes          the FilesystemSandbox instances constructed so far
\* ly.sandbox            the module global _sandbox (0 for None)
\* ly.eval, exec, compile   what the builtins are: "original" or "restricted"
\* ly.audit_logger       the module global _audit_logger: "None", or
\*                       "enabled" / "disabled" for a logger with that flag

MaxSandboxes == 2
MaxInstalls == 2

SandboxModes == {"disabled", "read_only", "whitelist"}
Levels == {"strict", "moderate", "minimal"}

LyInit ==
    ly = [meta_path |-> <<"PathFinder">>, subprocess |-> "real", running |-> FALSE,
          open |-> 0, sandboxes |-> <<>>, sandbox |-> 0,
          eval |-> "original", exec |-> "original", compile |-> "original",
          audit_logger |-> "None"]

\* The blocker put last: sys.meta_path.append(blocker)
meta_path_insert_Append(meta_path) == meta_path \o <<"NetworkModuleBlocker">>

\* install_import_restrictions: sys.meta_path.insert(0, blocker)
meta_path_insert(meta_path) == <<"NetworkModuleBlocker">> \o meta_path

Blockers(meta_path) ==
    Cardinality({i \in 1..Len(meta_path) : meta_path[i] = "NetworkModuleBlocker"})

InstallImportRestrictions ==
    /\ Blockers(ly.meta_path) < MaxInstalls
    /\ ly' = [ly EXCEPT !.meta_path = meta_path_insert(ly.meta_path)]
    /\ UNCHANGED <<imp, sp, sc, fs, rl, proc, pol, nb, au, fol, sn, dec, ln, sm>>

\* setup_worm_environment: the import hook, then the subprocess module
SetupWormEnvironment ==
    /\ ~ly.running
    /\ Blockers(ly.meta_path) < MaxInstalls
    /\ ly' = [ly EXCEPT !.meta_path = meta_path_insert(ly.meta_path),
                        !.subprocess = "restricted",
                        !.running = TRUE]
    /\ UNCHANGED <<imp, sp, sc, fs, rl, proc, pol, nb, au, fol, sn, dec, ln, sm>>

\* FilesystemSandbox.__init__: original_open is builtins.open as it is now
NewSandbox(l, mode) ==
    Append(l.sandboxes, [mode |-> mode, original_open |-> l.open, enabled |-> FALSE])

\* FilesystemSandbox.enable on instance i of l
sandbox_enable(l, i) ==
    IF l.sandboxes[i].mode = "disabled" THEN l
    ELSE [l EXCEPT !.open = i, !.sandboxes[i].enabled = TRUE]

\* FilesystemSandbox.disable on instance i of l
sandbox_disable(l, i) ==
    [l EXCEPT !.open = l.sandboxes[i].original_open, !.sandboxes[i].enabled = FALSE]

ConstructSandbox(mode) ==
    /\ Len(ly.sandboxes) < MaxSandboxes
    /\ ly' = [ly EXCEPT !.sandboxes = NewSandbox(ly, mode)]
    /\ UNCHANGED <<imp, sp, sc, fs, rl, proc, pol, nb, au, fol, sn, dec, ln, sm>>

SandboxEnable(i) ==
    /\ i \in 1..Len(ly.sandboxes)
    /\ ly' = sandbox_enable(ly, i)
    /\ UNCHANGED <<imp, sp, sc, fs, rl, proc, pol, nb, au, fol, sn, dec, ln, sm>>

SandboxDisable(i) ==
    /\ i \in 1..Len(ly.sandboxes)
    /\ ly' = sandbox_disable(ly, i)
    /\ UNCHANGED <<imp, sp, sc, fs, rl, proc, pol, nb, au, fol, sn, dec, ln, sm>>

\* enable_filesystem_sandbox(mode): a new instance becomes _sandbox and is enabled
EnableFilesystemSandbox(mode) ==
    /\ Len(ly.sandboxes) < MaxSandboxes
    /\ LET n == Len(ly.sandboxes) + 1
           made == [ly EXCEPT !.sandboxes = NewSandbox(ly, mode), !.sandbox = n]
       IN  ly' = sandbox_enable(made, n)
    /\ UNCHANGED <<imp, sp, sc, fs, rl, proc, pol, nb, au, fol, sn, dec, ln, sm>>

\* disable_filesystem_sandbox: if _sandbox: _sandbox.disable()
DisableFilesystemSandbox ==
    /\ ly' = IF ly.sandbox # 0 THEN sandbox_disable(ly, ly.sandbox) ELSE ly
    /\ UNCHANGED <<imp, sp, sc, fs, rl, proc, pol, nb, au, fol, sn, dec, ln, sm>>

\* Each call sets exactly the builtins of its level and puts the others back
enable_restricted_builtins_Exactly(l, level) ==
    [l EXCEPT !.eval = "restricted",
              !.exec = IF level \in {"strict", "moderate"} THEN "restricted" ELSE "original",
              !.compile = IF level = "strict" THEN "restricted" ELSE "original"]

\* enable_restricted_builtins(level)
enable_restricted_builtins(l, level) ==
    [l EXCEPT !.eval = IF level \in {"strict", "moderate", "minimal"}
                       THEN "restricted" ELSE @,
              !.exec = IF level \in {"strict", "moderate"} THEN "restricted" ELSE @,
              !.compile = IF level = "strict" THEN "restricted" ELSE @]

EnableRestrictedBuiltins(level) ==
    /\ ly' = enable_restricted_builtins(ly, level)
    /\ UNCHANGED <<imp, sp, sc, fs, rl, proc, pol, nb, au, fol, sn, dec, ln, sm>>

\* disable_restricted_builtins: eval, exec, compile and open are put back
\* to what they were when the module was imported
DisableRestrictedBuiltins ==
    /\ ly' = [ly EXCEPT !.eval = "original", !.exec = "original",
                        !.compile = "original", !.open = 0]
    /\ UNCHANGED <<imp, sp, sc, fs, rl, proc, pol, nb, au, fol, sn, dec, ln, sm>>

\* get_restriction_status: each builtin compared with the original kept at
\* import
get_restriction_status(l) ==
    [eval_restricted |-> l.eval # "original",
     exec_restricted |-> l.exec # "original",
     compile_restricted |-> l.compile # "original",
     open_restricted |-> l.open # 0]

\* A call of builtins.eval, builtins.exec or builtins.compile: _restricted_eval,
\* _restricted_exec and _restricted_compile raise whatever they are given
builtin_call(l, name) ==
    LET f == IF name = "eval" THEN l.eval
             ELSE IF name = "exec" THEN l.exec ELSE l.compile
    IN  IF f = "restricted" THEN "RestrictedBuiltinsError" ELSE "result"

\* enable_audit_logging: a new AuditLogger(enabled=True) becomes _audit_logger
EnableAuditLogging ==
    /\ ly' = [ly EXCEPT !.audit_logger = "enabled"]
    /\ UNCHANGED <<imp, sp, sc, fs, rl, proc, pol, nb, au, fol, sn, dec, ln, sm>>

\* get_audit_logger: an AuditLogger() is made if there is none
GetAuditLogger ==
    /\ ly' = [ly EXCEPT !.audit_logger = IF @ = "None" THEN "enabled" ELSE @]
    /\ UNCHANGED <<imp, sp, sc, fs, rl, proc, pol, nb, au, fol, sn, dec, ln, sm>>

\* disable_audit_logging: if _audit_logger: _audit_logger.enabled = False
DisableAuditLogging ==
    /\ ly' = [ly EXCEPT !.audit_logger = IF @ = "None" THEN @ ELSE "disabled"]
    /\ UNCHANGED <<imp, sp, sc, fs, rl, proc, pol, nb, au, fol, sn, dec, ln, sm>>

\* The sandboxes an open through builtins.open passes: the hook that
\* builtins.open is, then the hook its original_open is, and so on.
RECURSIVE HookChain(_, _)
HookChain(l, f) ==
    IF f = 0 THEN {}
    ELSE {f} \cup HookChain(l, l.sandboxes[f].original_open)

\* ------------------------------------------------------------------------
\* security/resource_limits.py: the set_*_limit functions and
\* set_standard_limits, over the kernel's setrlimit and alarm
\* ------------------------------------------------------------------------

\* rl.platform     what the process runs on: whether it may raise a hard
\*                 limit (CAP_SYS_RESOURCE), the resources whose setrlimit
\*                 the platform rejects (all of them where the resource
\*                 module is missing), whether signal.SIGALRM exists
\* rl.limits       resource -> <<soft, hard>>; RLIMIT_AS and RLIMIT_FSIZE are
\*                 counted in units of 1024 bytes
\* rl.alarm        the pending signal.alarm in seconds, 0 for none
\* rl.results      what the last set_* call returned, key by key ("absent"
\*                 for a key that is not in the result)
\* rl.call         the last set_* call: its function and its argument
\* rl.usage        what get_current_usage returned if it was the last call
\*                 (called): whether the report has the keys cpu_limit and
\*                 memory_limit_mb (limits), and their values, <<v>> for the
\*                 value v and <<>> for None

RLIM_INFINITY == -1
KiB == 1024

Resources == {"RLIMIT_CPU", "RLIMIT_AS", "RLIMIT_FSIZE", "RLIMIT_NOFILE"}
ResultKeys == {"cpu", "memory", "file_size", "open_files"}

\* a > b on rlimit values
RlimGreater(a, b) ==
    IF b = RLIM_INFINITY THEN FALSE
    ELSE IF a = RLIM_INFINITY THEN TRUE
    ELSE a > b

\* resource.setrlimit(resource, (soft, hard)): [raised, limits]
setrlimit(l, resource, soft, hard) ==
    IF resource \in l.platform.rejects
    THEN [raised |-> "OSError", limits |-> l.limits]
    ELSE IF RlimGreater(soft, hard)
    THEN [raised |-> "ValueError", limits |-> l.limits]
    ELSE IF RlimGreater(hard, l.limits[resource][2]) /\ ~l.platform.privileged
    THEN [raised |-> "ValueError", limits |-> l.limits]
    ELSE [raised |-> "none",
          limits |-> [l.limits EXCEPT ![resource] = <<soft, hard>>]]

\* megabytes * 1024 * 1024 bytes, in units of 1024 bytes
bytes_limit(megabytes) == megabytes * KiB

\* Each function gives [ret, limits, alarm]
set_cpu_limit(l, seconds) ==
    IF seconds <= 0 THEN [ret |-> "False", limits |-> l.limits, alarm |-> l.alarm]
    ELSE LET r == setrlimit(l, "RLIMIT_CPU", seconds, seconds)
         IN  IF r.raised = "none"
             THEN [ret |-> "True", limits |-> r.limits, alarm |-> l.alarm]
             ELSE IF l.platform.sigalrm
             THEN [ret |-> "True", limits |-> l.limits, alarm |-> seconds]
             ELSE [ret |-> "False", limits |-> l.limits, alarm |-> l.alarm]

set_rlimit_or_false(l, resource, request, value) ==
    IF request <= 0 THEN [ret |-> "False", limits |-> l.limits, alarm |-> l.alarm]
    ELSE LET r == setrlimit(l, resource, value, value)
         IN  [ret |-> IF r.raised = "none" THEN "True" ELSE "False",
              limits |-> r.limits, alarm |-> l.alarm]

set_memory_limit(l, megabytes) ==
    set_rlimit_or_false(l, "RLIMIT_AS", megabytes, bytes_limit(megabytes))

set_file_size_limit(l, megabytes) ==
    set_rlimit_or_false(l, "RLIMIT_FSIZE", megabytes, bytes_limit(megabytes))

set_open_files_limit(l, max_files) ==
    set_rlimit_or_false(l, "RLIMIT_NOFILE", max_files, max_files)

NoResults == [k \in ResultKeys |-> "absent"]

After(l, out) == [l EXCEPT !.limits = out.limits, !.alarm = out.alarm]

\* The four calls of one branch of set_standard_limits, in their order
apply_limits(l, cpu, memory, file_size, open_files) ==
    LET c == set_cpu_limit(l, cpu)
        m == set_memory_limit(After(l, c), memory)
        f == set_file_size_limit(After(After(l, c), m), file_size)
        o == set_open_files_limit(After(After(After(l, c), m), f), open_files)
    IN  [After(l, o) EXCEPT
           !.results = [cpu |-> c.ret, memory |-> m.ret,
                        file_size |-> f.ret, open_files |-> o.ret]]

set_standard_limits(l, profile) ==
    IF profile = "strict" THEN apply_limits(l, 30, 512, 10, 100)
    ELSE IF profile = "moderate" THEN apply_limits(l, 300, 2048, 100, 1000)
    ELSE IF profile = "relaxed" THEN apply_limits(l, 3600, 4096, 1024, 10000)
    ELSE [l EXCEPT !.results = NoResults]

\* get_current_usage: the limits of the usage report. cpu_soft is reported
\* as it is, mem_soft / 1024 / 1024 in megabytes, None for RLIM_INFINITY;
\* without the resource module the report has neither key.
get_current_usage(l) ==
    IF ~l.platform.resource_module
    THEN [called |-> TRUE, limits |-> FALSE, cpu_limit |-> <<>>, memory_limit_mb |-> <<>>]
    ELSE LET cpu_soft == l.limits["RLIMIT_CPU"][1]
             mem_soft == l.limits["RLIMIT_AS"][1]
         IN  [called |-> TRUE, limits |-> TRUE,
              cpu_limit |-> IF cpu_soft # RLIM_INFINITY THEN <<cpu_soft>> ELSE <<>>,
              memory_limit_mb |-> IF mem_soft # RLIM_INFINITY
                                  THEN <<mem_soft \div KiB>> ELSE <<>>]

NoUsage == [called |-> FALSE, limits |-> FALSE, cpu_limit |-> <<>>, memory_limit_mb |-> <<>>]
NoCall == [fn |-> "none", arg |-> "none"]

Platforms ==
    [privileged : BOOLEAN, rejects : SUBSET Resources, sigalrm : {TRUE},
     resource_module : {TRUE}]
      \cup {[privileged |-> FALSE, rejects |-> Resources, sigalrm |-> FALSE,
              resource_module |-> FALSE]}

Profiles == {"strict", "moderate", "relaxed", "disabled", "paranoid"}
Seconds == {0, 10, 20}
Megabytes == {0, 256}
MaxFiles == {0, 50}

RlIdle ==
    rl = [platform |-> [privileged |-> FALSE, rejects |-> {}, sigalrm |-> TRUE,
                        resource_module |-> TRUE],
          limits |-> [r \in Resources |-> <<RLIM_INFINITY, RLIM_INFINITY>>],
          alarm |-> 0, results |-> NoResults, call |-> NoCall, usage |-> NoUsage]

RlInit ==
    \E platform \in Platforms :
        rl = [platform |-> platform,
              limits |-> [r \in Resources |-> <<RLIM_INFINITY, RLIM_INFINITY>>],
              alarm |-> 0, results |-> NoResults, call |-> NoCall, usage |-> NoUsage]

SetCpuLimit(seconds) ==
    /\ LET out == set_cpu_limit(rl, seconds)
       IN  rl' = [After(rl, out) EXCEPT
                    !.results = [NoResults EXCEPT !.cpu = out.ret],
                    !.call = [fn |-> "set_cpu_limit", arg |-> seconds], !.usage = NoUsage]
    /\ UNCHANGED <<imp, sp, sc, fs, ly, proc, pol, nb, au, fol, sn, dec, ln, sm>>

SetMemoryLimit(megabytes) ==
    /\ LET out == set_memory_limit(rl, megabytes)
       IN  rl' = [After(rl, out) EXCEPT
                    !.results = [NoResults EXCEPT !.memory = out.ret],
                    !.call = [fn |-> "set_memory_limit", arg |-> megabytes], !.usage = NoUsage]
    /\ UNCHANGED <<imp, sp, sc, fs, ly, proc, pol, nb, au, fol, sn, dec, ln, sm>>

SetFileSizeLimit(megabytes) ==
    /\ LET out == set_file_size_limit(rl, megabytes)
       IN  rl' = [After(rl, out) EXCEPT
                    !.results = [NoResults EXCEPT !.file_size = out.ret],
                    !.call = [fn |-> "set_file_size_limit", arg |-> megabytes], !.usage = NoUsage]
    /\ UNCHANGED <<imp, sp, sc, fs, ly, proc, pol, nb, au, fol, sn, dec, ln, sm>>

SetOpenFilesLimit(max_files) ==
    /\ LET out == set_open_files_limit(rl, max_files)
       IN  rl' = [After(rl, out) EXCEPT
                    !.results = [NoResults EXCEPT !.open_files = out.ret],
                    !.call = [fn |-> "set_open_files_limit", arg |-> max_files], !.usage = NoUsage]
    /\ UNCHANGED <<imp, sp, sc, fs, ly, proc, pol, nb, au, fol, sn, dec, ln, sm>>

SetStandardLimits(profile) ==
    /\ rl' = [set_standard_limits(rl, profile) EXCEPT
                 !.call = [fn |-> "set_standard_limits", arg |-> profile],
                 !.usage = NoUsage]
    /\ UNCHANGED <<imp, sp, sc, fs, ly, proc, pol, nb, au, fol, sn, dec, ln, sm>>

GetCurrentUsage ==
    /\ rl' = [rl EXCEPT !.usage = get_current_usage(rl)]
    /\ UNCHANGED <<imp, sp, sc, fs, ly, proc, pol, nb, au, fol, sn, dec, ln, sm>>

\* ------------------------------------------------------------------------
\* A script running under the ceilings that set_cpu_limit and
\* set_memory_limit installed (security/resource_limits.py 18-71;
\* demo/attack_simulations/resource_exhaustion.py)
\* ------------------------------------------------------------------------

\* proc.state      "running": the script has control; "raising": an
\*                 exception is being raised in it; "killed": the kernel
\*                 killed the process; "exited": an exception left the
\*                 script uncaught; "none": no script
\* proc.cpu        CPU seconds used
\* proc.wall       seconds since the limits were set
\* proc.mem        megabytes of address space in use
\* proc.handles    the script runs its work under try / except
\* proc.exception  the exception being raised, "none" if none
\* proc.exceeded   the ceilings that were exceeded so far

MaxSeconds == 3
MaxAllocated == 3

CeilingSeconds == {0, 1, 2}
CeilingMegabytes == {0, 1, 2}

ProcIdle ==
    proc = [state |-> "none", cpu |-> 0, wall |-> 0, mem |-> 0, handles |-> FALSE,
            exception |-> "none", exceeded |-> {}]

\* The launcher sets a CPU and a memory ceiling, then the script starts
ProcInit ==
    \E platform \in Platforms, first \in CeilingSeconds, seconds \in CeilingSeconds,
       megabytes \in CeilingMegabytes, handles \in BOOLEAN :
        LET l0 == [platform |-> platform,
                   limits |-> [r \in Resources |-> <<RLIM_INFINITY, RLIM_INFINITY>>],
                   alarm |-> 0, results |-> NoResults, call |-> NoCall,
                   usage |-> NoUsage]
            l1 == After(l0, set_cpu_limit(l0, first))
            l2 == After(l1, set_cpu_limit(l1, seconds))
            l3 == After(l2, set_memory_limit(l2, megabytes))
        IN  /\ rl = l3
            /\ proc = [state |-> "running", cpu |-> 0, wall |-> 0, mem |-> 0,
                       handles |-> handles, exception |-> "none", exceeded |-> {}]

\* What the kernel and the interpreter do when a second has passed:
\* RLIMIT_CPU with soft = hard kills the process (SIGKILL at the hard
\* limit); an expired alarm runs timeout_handler, which raises
\* ResourceLimitError in the script.
AfterSecond(p) ==
    LET cpu_soft == rl.limits["RLIMIT_CPU"][1]
    IN  IF cpu_soft # RLIM_INFINITY /\ p.cpu >= cpu_soft
        THEN [p EXCEPT !.state = "killed", !.exceeded = @ \cup {"RLIMIT_CPU"}]
        ELSE IF rl.alarm # 0 /\ p.wall = rl.alarm
        THEN [p EXCEPT !.state = "raising", !.exception = "ResourceLimitError",
                       !.exceeded = @ \cup {"alarm"}]
        ELSE p

\* The script computes for a second (attempt_infinite_loop)
Compute ==
    /\ proc.state = "running"
    /\ proc.wall < MaxSeconds
    /\ proc' = AfterSecond([proc EXCEPT !.cpu = @ + 1, !.wall = @ + 1])
    /\ UNCHANGED <<imp, sp, sc, fs, ly, rl, pol, nb, au, fol, sn, dec, ln, sm>>

\* The script waits for a second without using the CPU
Wait ==
    /\ proc.state = "running"
    /\ proc.wall < MaxSeconds
    /\ proc' = AfterSecond([proc EXCEPT !.wall = @ + 1])
    /\ UNCHANGED <<imp, sp, sc, fs, ly, rl, pol, nb, au, fol, sn, dec, ln, sm>>

\* The script allocates a megabyte (attempt_memory_exhaustion): beyond
\* RLIMIT_AS the allocation fails and the interpreter raises MemoryError
Allocate ==
    /\ proc.state = "running"
    /\ proc.mem < MaxAllocated
    /\ LET mem_soft == rl.limits["RLIMIT_AS"][1]
       IN  proc' = IF mem_soft # RLIM_INFINITY /\ bytes_limit(proc.mem + 1) > mem_soft
                   THEN [proc EXCEPT !.state = "raising", !.exception = "MemoryError",
                                     !.exceeded = @ \cup {"RLIMIT_AS"}]
                   ELSE [proc EXCEPT !.mem = @ + 1]
    /\ UNCHANGED <<imp, sp, sc, fs, ly, rl, pol, nb, au, fol, sn, dec, ln, sm>>

\* except Exception / except MemoryError: the script goes on
Catch ==
    /\ proc.state = "raising"
    /\ proc.handles
    /\ proc' = [proc EXCEPT !.state = "running", !.exception = "none"]
    /\ UNCHANGED <<imp, sp, sc, fs, ly, rl, pol, nb, au, fol, sn, dec, ln, sm>>

\* No handler: the exception ends the script
Uncaught ==
    /\ proc.state = "raising"
    /\ ~proc.handles
    /\ proc' = [proc EXCEPT !.state = "exited"]
    /\ UNCHANGED <<imp, sp, sc, fs, ly, rl, pol, nb, au, fol, sn, dec, ln, sm>>

\* ------------------------------------------------------------------------
\* Selecting a policy by name: set_standard_limits(profile),
\* FilesystemSandbox(mode).enable(), enable_restricted_builtins(level)
\* ------------------------------------------------------------------------

\* pol.op       "input" before the call, then the function called
\* pol.value    the profile, mode or level handed to it
\* pol.raised   the exception the call raised, "none" if it returned
\* pol.ret      what the call returned: "True", "False", "dict" for the
\*              results of set_standard_limits (kept in rl.results)

PolicyValues ==
    {"strict", "moderate", "relaxed", "disabled", "minimal", "read_only",
     "whitelist", "blacklist", "paranoid", "Strict", ""}

PolIdle == pol = [op |-> "none", value |-> "", raised |-> "none", ret |-> "none"]

PolInit ==
    \E value \in PolicyValues :
        pol = [op |-> "input", value |-> value, raised |-> "none", ret |-> "none"]

\* What FilesystemSandbox.enable returns
sandbox_enable_ret(l, i) == IF l.sandboxes[i].mode = "disabled" THEN "False" ELSE "True"

PolicySetStandardLimits ==
    /\ pol.op = "input"
    /\ rl' = [set_standard_limits(rl, pol.value) EXCEPT
                 !.call = [fn |-> "set_standard_limits", arg |-> pol.value]]
    /\ pol' = [pol EXCEPT !.op = "set_standard_limits", !.ret = "dict"]
    /\ UNCHANGED <<imp, sp, sc, fs, ly, proc, nb, au, fol, sn, dec, ln, sm>>

PolicySandboxEnable ==
    /\ pol.op = "input"
    /\ LET made == [ly EXCEPT !.sandboxes = NewSandbox(ly, pol.value)]
           n == Len(made.sandboxes)
       IN  /\ ly' = sandbox_enable(made, n)
           /\ pol' = [pol EXCEPT !.op = "FilesystemSandbox.enable",
                                 !.ret = sandbox_enable_ret(made, n)]
    /\ UNCHANGED <<imp, sp, sc, fs, rl, proc, nb, au, fol, sn, dec, ln, sm>>

PolicyEnableRestrictedBuiltins ==
    /\ pol.op = "input"
    /\ ly' = enable_restricted_builtins(ly, pol.value)
    /\ pol' = [pol EXCEPT !.op = "enable_restricted_builtins", !.ret = "True"]
    /\ UNCHANGED <<imp, sp, sc, fs, rl, proc, nb, au, fol, sn, dec, ln, sm>>

\* ------------------------------------------------------------------------
\* seccomp/network_filter.py: is_seccomp_available and
\* enable_network_blocking, over the kernel's prctl and seccomp
\* ------------------------------------------------------------------------

\* nb.platform   sys.platform is 'linux'; ctypes can be imported; libc.so.6
\*               can be loaded; the kernel accepts PR_SET_NO_NEW_PRIVS; the
\*               kernel accepts a seccomp filter; the architecture
\* nb.filters    the filter programs the kernel has installed, oldest first
\* nb.ret        what the last call returned, "none" if it raised
\* nb.raised     the exception the last call raised, "none" if it returned
\* nb.calls      the calls made so far

MaxCalls == 3

\* The prctl system call of the architecture
prctl_nr(arch) == IF arch = AUDIT_ARCH_X86_64 THEN 157 ELSE 172

\* The kernel runs every installed filter; the call goes through only if
\* all of them return SECCOMP_RET_ALLOW
SyscallAllowed(filters, arch, nr) ==
    \A i \in 1..Len(filters) :
        RetAction(RunBPF(filters[i], [nr |-> nr, arch |-> arch], 1, Word(0, 0)))
            = RetAction(SECCOMP_RET_ALLOW)

\* libc.prctl(...): 0, or -1 when a filter or the kernel refuses
prctl(n, accepted) ==
    IF SyscallAllowed(n.filters, n.platform.arch, prctl_nr(n.platform.arch)) /\ accepted
    THEN 0 ELSE -1

is_seccomp_available(platform) ==
    IF ~platform.linux THEN [ret |-> "False", raised |-> "none"]
    ELSE IF ~platform.ctypes THEN [ret |-> "none", raised |-> "ImportError"]
    ELSE IF ~platform.libc THEN [ret |-> "False", raised |-> "none"]
    ELSE [ret |-> "True", raised |-> "none"]

\* [ret, raised, filters]
enable_network_blocking(n) ==
    LET available == is_seccomp_available(n.platform)
    IN  IF available.raised # "none"
        THEN [ret |-> "none", raised |-> available.raised, filters |-> n.filters]
        ELSE IF available.ret = "False"
        THEN [ret |-> "False", raised |-> "none", filters |-> n.filters]
        ELSE IF prctl(n, n.platform.no_new_privs) # 0
        THEN [ret |-> "False", raised |-> "none", filters |-> n.filters]
        ELSE IF prctl(n, n.platform.seccomp) # 0
        THEN [ret |-> "False", raised |-> "none", filters |-> n.filters]
        ELSE [ret |-> "True", raised |-> "none",
              filters |-> Append(n.filters, BuildFilters)]

NbPlatforms ==
    [linux : BOOLEAN, ctypes : BOOLEAN, libc : BOOLEAN, no_new_privs : BOOLEAN,
     seccomp : BOOLEAN, arch : {AUDIT_ARCH_X86_64, AUDIT_ARCH_I386}]

NbIdle ==
    nb = [platform |-> [linux |-> TRUE, ctypes |-> TRUE, libc |-> TRUE,
                        no_new_privs |-> TRUE, seccomp |-> TRUE,
                        arch |-> AUDIT_ARCH_X86_64],
          filters |-> <<>>, ret |-> "none", raised |-> "none", calls |-> 0]

NbInit ==
    \E platform \in NbPlatforms :
        nb = [platform |-> platform, filters |-> <<>>, ret |-> "none",
              raised |-> "none", calls |-> 0]

EnableNetworkBlocking ==
    /\ nb.calls < MaxCalls
    /\ LET out == enable_network_blocking(nb)
       IN  nb' = [nb EXCEPT !.filters = out.filters, !.ret = out.ret,
                            !.raised = out.raised, !.calls = @ + 1]
    /\ UNCHANGED <<imp, sp, sc, fs, ly, rl, proc, pol, au, fol, sn, dec, ln, sm>>

\* ------------------------------------------------------------------------
\* security/audit_log.py: Python values, json.dumps and json.loads, the log
\* file, AuditLogger and the readers
\* ------------------------------------------------------------------------

\* A Python value: its type t, its text s (str, int, bytes) and its items
\* (list, tuple, dict); k is its key where it is an item of a dict.
PyVal(t, s, items) == [k |-> "", t |-> t, s |-> s, items |-> items]
PyStr(s) == PyVal("str", s, <<>>)
PyInt(s) == PyVal("int", s, <<>>)
PyNone == PyVal("NoneType", "", <<>>)
PyBytes(s) == PyVal("bytes", s, <<>>)
PySet == PyVal("set", "", <<>>)
PyList(items) == PyVal("list", "", items)
PyTuple(items) == PyVal("tuple", "", items)
PyDict(items) == PyVal("dict", "", items)
Keyed(key, v) == [v EXCEPT !.k = key]

HasKey(d, key) == d.t = "dict" /\ \E i \in 1..Len(d.items) : d.items[i].k = key
\* d[key] of a dict that has the key
GetItem(d, key) ==
    Keyed("", d.items[CHOOSE i \in 1..Len(d.items) : d.items[i].k = key])

\* json.dumps raises TypeError for a value it cannot serialise
RECURSIVE Serialisable(_)
Serialisable(v) ==
    IF v.t \in {"str", "int", "NoneType"} THEN TRUE
    ELSE IF v.t \in {"list", "tuple", "dict"}
    THEN \A i \in 1..Len(v.items) : Serialisable(v.items[i])
    ELSE FALSE

\* The JSON text json.dumps writes for a serialisable value, as the JSON
\* value it denotes: a list and a tuple are both written as an array
RECURSIVE json_dumps(_)
json_dumps(v) ==
    [k |-> v.k,
     t |-> IF v.t = "str" THEN "string"
           ELSE IF v.t = "int" THEN "number"
           ELSE IF v.t = "NoneType" THEN "null"
           ELSE IF v.t = "dict" THEN "object"
           ELSE "array",
     s |-> v.s,
     items |-> [i \in 1..Len(v.items) |-> json_dumps(v.items[i])]]

\* A plausible slip in json.loads: an array read back as a tuple
RECURSIVE json_loads_Tuple(_)
json_loads_Tuple(j) ==
    [k |-> j.k,
     t |-> IF j.t = "string" THEN "str"
           ELSE IF j.t = "number" THEN "int"
           ELSE IF j.t = "null" THEN "NoneType"
           ELSE IF j.t = "object" THEN "dict"
           ELSE "tuple",
     s |-> j.s,
     items |-> [i \in 1..Len(j.items) |-> json_loads_Tuple(j.items[i])]]

\* json.loads of a complete JSON text
RECURSIVE json_loads(_)
json_loads(j) ==
    [k |-> j.k,
     t |-> IF j.t = "string" THEN "str"
           ELSE IF j.t = "number" THEN "int"
           ELSE IF j.t = "null" THEN "NoneType"
           ELSE IF j.t = "object" THEN "dict"
           ELSE "list",
     s |-> j.s,
     items |-> [i \in 1..Len(j.items) |-> json_loads(j.items[i])]]

\* The log file is the sequence of the pieces of text appended to it. A
\* piece is part `part` of the `of` parts of the JSON text of json, or some
\* other text; nl tells whether it ends the line.
JsonChunk(j, part, of, nl) ==
    [kind |-> "json", json |-> j, text |-> "", part |-> part, of |-> of, nl |-> nl]
TextChunk(text, nl) ==
    [kind |-> "text", json |-> json_dumps(PyNone), text |-> text, part |-> 1, of |-> 1,
     nl |-> nl]

\* The lines of a file, as `for line in f` yields them: each ends with its
\* newline, the last one may lack it
RECURSIVE Lines(_)
Lines(file) ==
    IF file = <<>> THEN <<>>
    ELSE IF \E i \in 1..Len(file) : file[i].nl
    THEN LET n == CHOOSE i \in 1..Len(file) :
                     file[i].nl /\ \A h \in 1..(i - 1) : ~file[h].nl
         IN  <<SubSeq(file, 1, n)>> \o Lines(SubSeq(file, n + 1, Len(file)))
    ELSE <<file>>

\* line.strip() is a complete JSON text: all the parts of one text, in order
\* (a blank line and any other text are not)
IsJsonText(line) ==
    /\ line # <<>>
    /\ \A i \in 1..Len(line) :
          /\ line[i].kind = "json"
          /\ line[i].json = line[1].json
          /\ line[i].part = i
          /\ line[i].of = Len(line)

\* au.file       the log file
\* au.earlier    the file as it was when the logger was made
\* au.enabled    AuditLogger.enabled
\* au.writable   open(log_file, 'a') succeeds
\* au.cwd        os.getcwd() succeeds
\* au.calls      the log_* calls made so far: method, arguments, and the
\*               exception that reached the caller ("none" if it returned)
\* au.stderr     the number of "Audit log write failed" messages on stderr
\* au.out        what the last reader call gave: op, the entries returned,
\*               the exception raised

MaxEvents == 2

SessionId == "4242_1700000000"

\* The entry of _write_log; the timestamp, a wall-clock reading, is left out
Entry(session_id, event_type, data) ==
    PyDict(<<Keyed("session_id", PyStr(session_id)),
             Keyed("event_type", PyStr(event_type)),
             Keyed("data", data)>>)

\* AuditLogger._write_log: [file, stderr]
write_log(a, event_type, data) ==
    IF ~a.enabled THEN [file |-> a.file, stderr |-> a.stderr]
    ELSE LET entry == Entry(SessionId, event_type, data)
         IN  IF ~a.writable \/ ~Serialisable(entry)
             THEN [file |-> a.file, stderr |-> a.stderr + 1]
             ELSE [file |-> Append(a.file, JsonChunk(json_dumps(entry), 1, 1, TRUE)),
                   stderr |-> a.stderr]

\* command if isinstance(command, str) else ' '.join(command):
\* [raised, value]
command_text(command) ==
    IF command.t = "str" THEN [raised |-> "none", value |-> command]
    ELSE IF command.t \in {"list", "tuple"}
            /\ \A i \in 1..Len(command.items) : command.items[i].t = "str"
    THEN [raised |-> "none",
          value |-> PyStr(join(" ", [i \in 1..Len(command.items) |-> command.items[i].s]))]
    ELSE [raised |-> "TypeError", value |-> PyNone]

\* The data each log_* method hands to _write_log: [raised, event_type, data]
log_data(a, method, x, y) ==
    IF method = "log_blocked_import"
    THEN [raised |-> "none", event_type |-> "blocked_import",
          data |-> PyDict(<<Keyed("module", x), Keyed("caller", y)>>)]
    ELSE IF method = "log_blocked_subprocess"
    THEN [raised |-> command_text(x).raised, event_type |-> "blocked_subprocess",
          data |-> PyDict(<<Keyed("command", command_text(x).value), Keyed("reason", y)>>)]
    ELSE IF method = "log_restricted_builtin"
    THEN [raised |-> "none", event_type |-> "restricted_builtin",
          data |-> PyDict(<<Keyed("builtin", x)>>)]
    ELSE IF method = "log_resource_limit_hit"
    THEN [raised |-> "none", event_type |-> "resource_limit_hit",
          data |-> PyDict(<<Keyed("resource", x), Keyed("limit", y)>>)]
    ELSE IF method = "log_session_start"
    THEN [raised |-> IF a.cwd THEN "none" ELSE "FileNotFoundError",
          event_type |-> "session_start",
          data |-> PyDict(<<Keyed("script", x), Keyed("args", y),
                            Keyed("cwd", PyStr("/tmp"))>>)]
    ELSE IF method = "log_session_end"
    THEN [raised |-> "none", event_type |-> "session_end",
          data |-> PyDict(<<Keyed("exit_code", x)>>)]
    ELSE IF method = "log_ioc_detected"
    THEN [raised |-> "none", event_type |-> "IOC_DETECTED",
          data |-> PyDict(<<Keyed("ioc_type", x), Keyed("details", y),
                            Keyed("SEVERITY", PyStr("CRITICAL"))>>)]
    ELSE [raised |-> "none", event_type |-> x.s, data |-> y]

\* The calls made on the logger: method and its two arguments (None where
\* the method has one argument only)
LogCalls ==
    { <<"log_blocked_import", PyStr("socket"), PyNone>>,
      <<"log_blocked_subprocess", PyList(<<PyStr("curl"), PyStr("evil.com")>>),
        PyStr("network command")>>,
      <<"log_blocked_subprocess", PyList(<<PyStr("curl"), PyInt("1")>>),
        PyStr("network command")>>,
      <<"log_restricted_builtin", PyStr("eval"), PyNone>>,
      <<"log_resource_limit_hit", PyStr("cpu"), PyInt("30")>>,
      <<"log_session_start", PyStr("/demo/test.py"), PyTuple(<<PyStr("arg1")>>)>>,
      <<"log_session_end", PyInt("0"), PyNone>>,
      <<"log_ioc_detected", PyStr("print_statement"), PyStr("print() at line 42")>>,
      <<"log_ioc_detected", PyStr("print_statement"), PySet>>,
      <<"log_custom", PyStr("IOC_DETECTED"), PyDict(<<>>)>>,
      <<"log_custom", PyStr("note"), PyBytes("x")>> }

Methods == {c[1] : c \in LogCalls}

\* The files a logger may find: empty, or the records of an earlier session
EarlierFiles ==
    { <<>>,
      <<JsonChunk(json_dumps(Entry("77_1600000000", "IOC_DETECTED",
                    PyDict(<<Keyed("ioc_type", PyStr("print_statement")),
                             Keyed("details", PyStr("old")),
                             Keyed("SEVERITY", PyStr("CRITICAL"))>>))), 1, 1, TRUE),
        JsonChunk(json_dumps(Entry("77_1600000000", "session_end",
                    PyDict(<<Keyed("exit_code", PyInt("0"))>>))), 1, 1, TRUE)>> }

NoOut == [op |-> "none", entries |-> <<>>, raised |-> "none"]

AuIdle ==
    au = [file |-> <<>>, earlier |-> <<>>, enabled |-> FALSE, writable |-> FALSE,
          cwd |-> TRUE, calls |-> <<>>, stderr |-> 0, out |-> NoOut]

AuInit ==
    \E file \in EarlierFiles, enabled \in BOOLEAN, writable \in BOOLEAN, cwd \in BOOLEAN :
        au = [file |-> file, earlier |-> file, enabled |-> enabled,
              writable |-> writable, cwd |-> cwd, calls |-> <<>>, stderr |-> 0,
              out |-> NoOut]

\* One log_* call
Log(method, x, y) ==
    /\ Len(au.calls) < MaxEvents
    /\ au.out.op = "none"
    /\ LET d == log_data(au, method, x, y)
           w == write_log(au, d.event_type, d.data)
           call == [method |-> method, x |-> x, y |-> y, raised |-> d.raised]
       IN  au' = IF d.raised # "none"
                 THEN [au EXCEPT !.calls = Append(@, call)]
                 ELSE [au EXCEPT !.calls = Append(@, call), !.file = w.file,
                                 !.stderr = w.stderr]
    /\ UNCHANGED <<imp, sp, sc, fs, ly, rl, proc, pol, nb, fol, sn, dec, ln, sm>>

\* A plausible slip in read_audit_log: reading stops at the first line that
\* does not parse
RECURSIVE read_entries_StopAtBadLine(_)
read_entries_StopAtBadLine(lines) ==
    IF lines = <<>> THEN <<>>
    ELSE IF IsJsonText(lines[1])
    THEN <<json_loads(lines[1][1].json)>> \o read_entries_StopAtBadLine(Tail(lines))
    ELSE <<>>

\* for line in f: try: entries.append(json.loads(line.strip()))
\*                except json.JSONDecodeError: continue
RECURSIVE read_entries(_)
read_entries(lines) ==
    IF lines = <<>> THEN <<>>
    ELSE IF IsJsonText(lines[1])
    THEN <<json_loads(lines[1][1].json)>> \o read_entries(Tail(lines))
    ELSE read_entries(Tail(lines))

\* read_audit_log(log_file): [raised, entries]
read_audit_log(file) == [raised |-> "none", entries |-> read_entries(Lines(file))]

\* entry.get('event_type') of a dict: None when the key is missing
get_event_type(entry) ==
    IF HasKey(entry, "event_type") THEN GetItem(entry, "event_type") ELSE PyNone

\* The loop of search_audit_log over entries[i..], results so far in acc;
\* entry.get raises AttributeError on an entry that is not a dict
RECURSIVE search_loop(_, _, _, _)
search_loop(entries, i, event_type, acc) ==
    IF i > Len(entries) THEN [raised |-> "none", entries |-> acc]
    ELSE IF entries[i].t # "dict" THEN [raised |-> "AttributeError", entries |-> <<>>]
    ELSE IF get_event_type(entries[i]) # PyStr(event_type)
    THEN search_loop(entries, i + 1, event_type, acc)
    ELSE search_loop(entries, i + 1, event_type, Append(acc, entries[i]))

\* search_audit_log(event_type=event_type, log_file=log_file)
search_audit_log(file, event_type) ==
    search_loop(read_audit_log(file).entries, 1, event_type, <<>>)

\* The first loop of IoCMonitor.monitor_audit_log over lines[i..]: a line
\* that is not JSON is skipped; any other exception (entry.get on a value
\* that is not a dict, entry['data'] missing, entry['data'].get on a value
\* that is not a dict) ends the reading, after the event was appended
RECURSIVE monitor_loop(_, _, _)
monitor_loop(lines, i, acc) ==
    IF i > Len(lines) THEN [raised |-> "none", entries |-> acc, stopped |-> FALSE]
    ELSE IF ~IsJsonText(lines[i]) THEN monitor_loop(lines, i + 1, acc)
    ELSE LET entry == json_loads(lines[i][1].json)
         IN  IF entry.t # "dict"
             THEN [raised |-> "none", entries |-> acc, stopped |-> TRUE]
             ELSE IF get_event_type(entry) # PyStr("IOC_DETECTED")
             THEN monitor_loop(lines, i + 1, acc)
             ELSE IF ~HasKey(entry, "data") \/ GetItem(entry, "data").t # "dict"
             THEN [raised |-> "none", entries |-> Append(acc, entry), stopped |-> TRUE]
             ELSE monitor_loop(lines, i + 1, Append(acc, entry))

\* monitor_audit_log(log_file, follow=False)
monitor_audit_log(file) == monitor_loop(Lines(file), 1, <<>>)

SearchTypes == {"IOC_DETECTED", "session_end"}

ReadAuditLog ==
    /\ au.out.op = "none"
    /\ LET out == read_audit_log(au.file)
       IN  au' = [au EXCEPT !.out = [op |-> "read_audit_log", entries |-> out.entries,
                                     raised |-> out.raised]]
    /\ UNCHANGED <<imp, sp, sc, fs, ly, rl, proc, pol, nb, fol, sn, dec, ln, sm>>

SearchAuditLog(event_type) ==
    /\ au.out.op = "none"
    /\ LET out == search_audit_log(au.file, event_type)
       IN  au' = [au EXCEPT !.out = [op |-> "search_audit_log:" \o event_type,
                                     entries |-> out.entries, raised |-> out.raised]]
    /\ UNCHANGED <<imp, sp, sc, fs, ly, rl, proc, pol, nb, fol, sn, dec, ln, sm>>

MonitorAuditLog ==
    /\ au.out.op = "none"
    /\ LET out == monitor_audit_log(au.file)
       IN  au' = [au EXCEPT !.out = [op |-> "monitor_audit_log", entries |-> out.entries,
                                     raised |-> out.raised]]
    /\ UNCHANGED <<imp, sp, sc, fs, ly, rl, proc, pol, nb, fol, sn, dec, ln, sm>>

\* The lines a reader may meet in a file it did not write alone: records,
\* and the malformed lines readers are to skip
MaxLines == 3

IocRecord ==
    Entry("77_1600000000", "IOC_DETECTED",
          PyDict(<<Keyed("ioc_type", PyStr("print_statement")),
                   Keyed("details", PyStr("old")),
                   Keyed("SEVERITY", PyStr("CRITICAL"))>>))

FileLines ==
    { JsonChunk(json_dumps(IocRecord), 1, 1, TRUE),
      JsonChunk(json_dumps(Entry("77_1600000000", "session_end",
                   PyDict(<<Keyed("exit_code", PyInt("0"))>>))), 1, 1, TRUE),
      TextChunk("", TRUE),
      TextChunk("not json", TRUE),
      JsonChunk(json_dumps(PyInt("42")), 1, 1, TRUE),
      JsonChunk(json_dumps(PyList(<<>>)), 1, 1, TRUE),
      JsonChunk(json_dumps(PyDict(<<Keyed("session_id", PyStr("77_1600000000")),
                                    Keyed("event_type", PyStr("IOC_DETECTED"))>>)),
                1, 1, TRUE),
      JsonChunk(json_dumps(PyDict(<<Keyed("session_id", PyStr("77_1600000000")),
                                    Keyed("data", PyDict(<<>>))>>)), 1, 1, TRUE) }

RECURSIVE FilesOfLen(_)
FilesOfLen(n) ==
    IF n = 0 THEN {<<>>}
    ELSE {Append(file, line) : file \in FilesOfLen(n - 1), line \in FileLines}

AuReadInit ==
    \E n \in 0..MaxLines : \E file \in FilesOfLen(n) :
        au = [file |-> file, earlier |-> file, enabled |-> FALSE, writable |-> FALSE,
              cwd |-> TRUE, calls |-> <<>>, stderr |-> 0, out |-> NoOut]

\* Follow mode: sandbox sessions append to the log while monitor_audit_log
\* (follow=True) reads it.
\* fol.file       the log file, as the pieces of text appended so far
\* fol.wrote      for each session, the entries it has handed to f.write
\* fol.inflight   the session whose f.write has put the first part of a long
\*                record in the file and not yet the rest ("" if none)
\* fol.pos        the follower's read position, in pieces
\* fol.state      "first" in the loop over the existing lines, "follow" in
\*                the while loop, "sleeping" in time.sleep(0.5), "returned"
\* fol.events     ioc_events
\* fol.parsed     the values json.loads returned to the follower
\* fol.partial    the follower has read a line that ended without a newline
\* fol.cancelled  the call ended by KeyboardInterrupt

MaxAppends == 3

Sessions == {"101_1700000000", "102_1700000000"}

\* The records a session writes: a finding, a finding with long details
\* (its text is longer than one write reaches the file in), and a custom
\* event of type IOC_DETECTED whose data is a string
RecordKinds == {"ioc", "long", "custom"}

\* The entry of write number n of a kind of record of a session
SessionEntry(session, kind, n) ==
    LET d == IF kind = "custom"
             THEN log_data([cwd |-> TRUE], "log_custom", PyStr("IOC_DETECTED"),
                           PyStr(ToString(n)))
             ELSE log_data([cwd |-> TRUE], "log_ioc_detected", PyStr("print_statement"),
                           PyStr(kind \o " " \o ToString(n)))
    IN  Entry(session, d.event_type, d.data)

\* Entries appended so far, the one in flight included
Appended(f) ==
    LET RECURSIVE Sum(_)
        Sum(S) == IF S = {} THEN 0
                  ELSE LET s == CHOOSE s \in S : TRUE
                       IN  Len(f.wrote[s]) + Sum(S \ {s})
    IN  Sum(Sessions)

FolIdle ==
    fol = [file |-> <<>>, wrote |-> [s \in Sessions |-> <<>>], inflight |-> "", pos |-> 0,
           state |-> "returned", events |-> <<>>, parsed |-> <<>>, partial |-> FALSE,
           cancelled |-> FALSE]

FolInit ==
    \E file \in EarlierFiles :
        fol = [file |-> file, wrote |-> [s \in Sessions |-> <<>>], inflight |-> "",
               pos |-> 0, state |-> "first", events |-> <<>>, parsed |-> <<>>,
               partial |-> FALSE, cancelled |-> FALSE]

\* _write_log of one session, the record reaching the file in one piece.
\* Appends of different sessions do not overlap: the file is opened with 'a'
AppendRecord(session, kind) ==
    /\ kind # "long"
    /\ fol.inflight = ""
    /\ Appended(fol) < MaxAppends
    /\ LET entry == SessionEntry(session, kind, Len(fol.wrote[session]) + 1)
       IN  fol' = [fol EXCEPT !.file = Append(@, JsonChunk(json_dumps(entry), 1, 1, TRUE)),
                              !.wrote[session] = Append(@, entry)]
    /\ UNCHANGED <<imp, sp, sc, fs, ly, rl, proc, pol, nb, au, sn, dec, ln, sm>>

\* _write_log of a long record: the first part of the text is in the file
\* and can be read before the rest is
AppendBegin(session) ==
    /\ fol.inflight = ""
    /\ Appended(fol) < MaxAppends
    /\ LET entry == SessionEntry(session, "long", Len(fol.wrote[session]) + 1)
       IN  fol' = [fol EXCEPT !.file = Append(@, JsonChunk(json_dumps(entry), 1, 2, FALSE)),
                              !.wrote[session] = Append(@, entry),
                              !.inflight = session]
    /\ UNCHANGED <<imp, sp, sc, fs, ly, rl, proc, pol, nb, au, sn, dec, ln, sm>>

AppendEnd ==
    /\ fol.inflight # ""
    /\ LET entry == fol.wrote[fol.inflight][Len(fol.wrote[fol.inflight])]
       IN  fol' = [fol EXCEPT !.file = Append(@, JsonChunk(json_dumps(entry), 2, 2, TRUE)),
                              !.inflight = ""]
    /\ UNCHANGED <<imp, sp, sc, fs, ly, rl, proc, pol, nb, au, sn, dec, ln, sm>>

\* f.readline() at position pos: the text up to and including the next
\* newline, or up to the end of the file when no newline has been written yet
readline(file, pos) ==
    LET rest == SubSeq(file, pos + 1, Len(file))
    IN  IF rest = <<>> THEN <<>> ELSE Lines(rest)[1]

\* A plausible slip in the loop body: the event is appended after the alert
\* was given, so an entry whose data is not a dict is not appended
process_line_AlertFirst(line, events) ==
    IF ~IsJsonText(line) THEN [events |-> events, parsed |-> <<>>, raised |-> FALSE]
    ELSE LET entry == json_loads(line[1].json)
         IN  IF entry.t # "dict"
             THEN [events |-> events, parsed |-> <<entry>>, raised |-> TRUE]
             ELSE IF get_event_type(entry) # PyStr("IOC_DETECTED")
             THEN [events |-> events, parsed |-> <<entry>>, raised |-> FALSE]
             ELSE IF ~HasKey(entry, "data") \/ GetItem(entry, "data").t # "dict"
             THEN [events |-> events, parsed |-> <<entry>>, raised |-> TRUE]
             ELSE [events |-> Append(events, entry), parsed |-> <<entry>>,
                   raised |-> FALSE]

\* The body of both loops of monitor_audit_log for one line: json.loads, the
\* test of event_type, ioc_events.append, alert_callback. raised tells that
\* an exception other than json.JSONDecodeError left the loop
process_line(line, events) ==
    IF ~IsJsonText(line) THEN [events |-> events, parsed |-> <<>>, raised |-> FALSE]
    ELSE LET entry == json_loads(line[1].json)
         IN  IF entry.t # "dict"
             THEN [events |-> events, parsed |-> <<entry>>, raised |-> TRUE]
             ELSE IF get_event_type(entry) # PyStr("IOC_DETECTED")
             THEN [events |-> events, parsed |-> <<entry>>, raised |-> FALSE]
             ELSE IF ~HasKey(entry, "data") \/ GetItem(entry, "data").t # "dict"
             THEN [events |-> Append(events, entry), parsed |-> <<entry>>,
                   raised |-> TRUE]
             ELSE [events |-> Append(events, entry), parsed |-> <<entry>>,
                   raised |-> FALSE]

\* One turn of `for line in f` or of `while True: line = f.readline()`
ReadLine ==
    /\ fol.state \in {"first", "follow"}
    /\ LET line == readline(fol.file, fol.pos)
           out == process_line(line, fol.events)
       IN  fol' = IF line = <<>>
                  THEN [fol EXCEPT !.state = IF @ = "first" THEN "follow" ELSE "sleeping"]
                  ELSE [fol EXCEPT !.pos = @ + Len(line),
                                   !.events = out.events,
                                   !.parsed = @ \o out.parsed,
                                   !.partial = @ \/ ~line[Len(line)].nl,
                                   !.state = IF out.raised THEN "returned" ELSE @]
    /\ UNCHANGED <<imp, sp, sc, fs, ly, rl, proc, pol, nb, au, sn, dec, ln, sm>>

\* time.sleep(0.5) returns
Wake ==
    /\ fol.state = "sleeping"
    /\ fol' = [fol EXCEPT !.state = "follow"]
    /\ UNCHANGED <<imp, sp, sc, fs, ly, rl, proc, pol, nb, au, sn, dec, ln, sm>>

\* KeyboardInterrupt reaches the call in either loop or in the sleep:
\* except KeyboardInterrupt, then return ioc_events
KeyboardInterrupt ==
    /\ fol.state \in {"first", "follow", "sleeping"}
    /\ fol' = [fol EXCEPT !.state = "returned", !.cancelled = TRUE]
    /\ UNCHANGED <<imp, sp, sc, fs, ly, rl, proc, pol, nb, au, sn, dec, ln, sm>>

\* ------------------------------------------------------------------------
\* tools/ioc_monitor.py: scan_file, scan_directory, main
\* ------------------------------------------------------------------------

WordChars == LowerLetters \o UpperLetters \o "0123456789_"
IsWordChar(c) == \E i \in 1..Len(WordChars) : CharAt(WordChars, i) = c

\* PRINT_PATTERN.search(line) for re.compile(r'\bprint\s*\('): somewhere in
\* the line the word print begins (start of line or after a non-word
\* character), followed by any whitespace and an opening parenthesis
PRINT_PATTERN_search(line) ==
    \E i \in 1..(Len(line) - 4) :
        /\ SubSeq(line, i, i + 4) = "print"
        /\ i = 1 \/ ~IsWordChar(CharAt(line, i - 1))
        /\ \E j \in (i + 5)..Len(line) :
              /\ CharAt(line, j) = "("
              /\ \A k \in (i + 5)..(j - 1) : CharAt(line, k) = " "

\* line.strip(), for lines whose only whitespace is the space
RECURSIVE strip(_)
strip(s) ==
    IF s = "" THEN ""
    ELSE IF CharAt(s, 1) = " " THEN strip(Tail(s))
    ELSE IF CharAt(s, Len(s)) = " " THEN strip(SubSeq(s, 1, Len(s) - 1))
    ELSE s

\* What a path names: a file with its lines, a directory with what
\* rglob('*.py') yields in it, or nothing
MissingPath == [kind |-> "missing", readable |-> FALSE, lines |-> <<>>, entries |-> <<>>]
File(lines) == [kind |-> "file", readable |-> TRUE, lines |-> lines, entries |-> <<>>]
UnreadableFile == [kind |-> "file", readable |-> FALSE, lines |-> <<>>, entries |-> <<>>]
Directory(entries) ==
    [kind |-> "dir", readable |-> TRUE, lines |-> <<>>, entries |-> entries]
\* An entry rglob yields: a file, or a directory whose name ends in .py
DirEntry(is_file, readable, lines) ==
    [is_file |-> is_file, readable |-> readable, lines |-> lines]

\* The loop of scan_file over lines[line_num..]: [findings, ioc_count,
\* stderr]. An exception of alert_callback leaves the loop through
\* `except Exception`, after the finding was appended and counted
RECURSIVE scan_lines(_, _, _, _, _, _)
scan_lines(lines, line_num, file_path, callback, findings, ioc_count) ==
    IF line_num > Len(lines)
    THEN [findings |-> findings, ioc_count |-> ioc_count, stderr |-> 0]
    ELSE IF ~PRINT_PATTERN_search(lines[line_num])
    THEN scan_lines(lines, line_num + 1, file_path, callback, findings, ioc_count)
    ELSE LET finding == [type |-> "PRINT_STATEMENT_IOC", file |-> file_path,
                         line |-> line_num, content |-> strip(lines[line_num]),
                         severity |-> "CRITICAL"]
         IN  IF callback = "raises"
             THEN [findings |-> Append(findings, finding), ioc_count |-> ioc_count + 1,
                   stderr |-> 1]
             ELSE scan_lines(lines, line_num + 1, file_path, callback,
                             Append(findings, finding), ioc_count + 1)

\* IoCMonitor.scan_file: open raises for a path that is missing, is a
\* directory or cannot be read, and that is reported on stderr
scan_file(file_path, target, callback, ioc_count) ==
    IF target.kind # "file" \/ ~target.readable
    THEN [findings |-> <<>>, ioc_count |-> ioc_count, stderr |-> 1]
    ELSE scan_lines(target.lines, 1, file_path, callback, <<>>, ioc_count)

\* The loop of scan_directory over the entries rglob yields
RECURSIVE scan_entries(_, _, _, _, _, _)
scan_entries(entries, i, directory, callback, all_findings, ioc_count) ==
    IF i > Len(entries)
    THEN [findings |-> all_findings, ioc_count |-> ioc_count]
    ELSE IF ~entries[i].is_file
    THEN scan_entries(entries, i + 1, directory, callback, all_findings, ioc_count)
    ELSE LET out == scan_file(directory \o "/f" \o ToString(i) \o ".py",
                              IF entries[i].readable THEN File(entries[i].lines)
                              ELSE UnreadableFile,
                              callback, ioc_count)
         IN  scan_entries(entries, i + 1, directory, callback,
                          all_findings \o out.findings, out.ioc_count)

\* IoCMonitor.scan_directory: rglob yields nothing for a path that is not a
\* directory
scan_directory(directory, target, callback, ioc_count) ==
    LET entries == IF target.kind = "dir" THEN target.entries ELSE <<>>
        out == scan_entries(entries, 1, directory, callback, <<>>, ioc_count)
    IN  [total_files_scanned |-> Len(entries), total_iocs_found |-> Len(out.findings),
         findings |-> out.findings, ioc_count |-> out.ioc_count]

\* The lines of the shipped src/src/worm tree that hold the text print (no
\* other line can match the pattern), file by file in the eleven *.py
\* files; non-ASCII characters of the lines are left out
WormSource ==
    Directory(<<
      DirEntry(TRUE, TRUE, <<>>),
      DirEntry(TRUE, TRUE, <<>>),
      DirEntry(TRUE, TRUE,
        << "    print(\"Testing restricted subprocess module...\")",
           "        print(f\" Allowed command worked: {result.stdout.strip()}\")",
           "        print(f\"ERROR: Allowed command failed: {e}\")",
           "        print(\"ERROR: curl was not blocked!\")",
           "        print(f\" Network command blocked: {type(e).__name__}\")",
           "        print(\"ERROR: wget with URL was not blocked!\")",
           "        print(f\" URL pattern blocked: {type(e).__name__}\")" >>),
      DirEntry(TRUE, TRUE, <<>>),
      DirEntry(TRUE, TRUE, <<>>),
      DirEntry(TRUE, TRUE, <<>>),
      DirEntry(TRUE, TRUE,
        << "        This is for critical security events like print() detection.",
           "    logger.log_ioc_detected('print_statement', 'print() detected in execution')" >>),
      DirEntry(TRUE, TRUE, <<>>),
      DirEntry(TRUE, TRUE, <<>>),
      DirEntry(TRUE, TRUE, <<>>),
      DirEntry(TRUE, TRUE, <<>>) >>)

\* main(): the exit code of each mode. main makes its own IoCMonitor, with
\* the default alert, which returns. [exit, findings, ioc_count]
monitor_main(mode, path, target, worm_src, log) ==
    IF mode = "--scan-file"
    THEN LET out == scan_file(path, target, "default", 0)
         IN  [exit |-> IF out.findings # <<>> THEN 1 ELSE 0, found |-> Len(out.findings)]
    ELSE IF mode = "--scan-dir"
    THEN LET out == scan_directory(path, target, "default", 0)
         IN  [exit |-> IF out.total_iocs_found > 0 THEN 1 ELSE 0,
              found |-> out.total_iocs_found]
    ELSE IF mode = "--monitor-log"
    THEN LET iocs == IF log.kind = "missing" THEN <<>>
                     ELSE monitor_audit_log(log.lines).entries
         IN  [exit |-> IF iocs # <<>> THEN 1 ELSE 0, found |-> Len(iocs)]
    ELSE IF mode = "--verify-worm-source"
    THEN IF worm_src.kind = "missing" THEN [exit |-> 2, found |-> 0]
         ELSE LET out == scan_directory("src/worm", worm_src, "default", 0)
              IN  [exit |-> IF out.total_iocs_found > 0 THEN 1 ELSE 0,
                   found |-> out.total_iocs_found]
    ELSE [exit |-> 0, found |-> 0]

Modes == {"--scan-file", "--scan-dir", "--monitor-log", "--verify-worm-source", "--help"}

\* The inputs of a scan
MaxScanLines == 2
MaxDirEntries == 2

ScanLines ==
    { "x = 1", "print(x)", "  print (x)", "xprint(1)", "obj.print(1)", "# print(",
      "printf(1)", "print" }

RECURSIVE SeqsUpTo(_, _)
SeqsUpTo(S, n) ==
    IF n = 0 THEN {<<>>}
    ELSE LET shorter == SeqsUpTo(S, n - 1)
         IN  shorter \cup {Append(s, x) : s \in shorter, x \in S}

DirEntries ==
    { DirEntry(TRUE, TRUE, <<"x = 1">>),
      DirEntry(TRUE, TRUE, <<"x = 1", "print(x)">>),
      DirEntry(TRUE, TRUE, <<"print(1)", "print(2)">>),
      DirEntry(TRUE, FALSE, <<>>),
      DirEntry(FALSE, TRUE, <<>>) }

Targets ==
    {MissingPath, UnreadableFile, WormSource}
      \cup {File(lines) : lines \in SeqsUpTo(ScanLines, MaxScanLines)}
      \cup {Directory(entries) : entries \in SeqsUpTo(DirEntries, MaxDirEntries)}

\* The audit logs --monitor-log may find; lines holds the file
Logs ==
    {MissingPath} \cup {[kind |-> "file", readable |-> TRUE, lines |-> file,
                         entries |-> <<>>] : file \in EarlierFiles}

\* sn.path, sn.target   the path to scan and what it names
\* sn.worm_src          what src/worm next to the tool names
\* sn.log               the audit log
\* sn.callback          alert_callback returns ("default") or raises
\* sn.ioc_count         IoCMonitor.ioc_count; sn.before: before the call
\* sn.audit             the records appended to the audit log by the scan
\* sn.out               the call made and what it gave
NoScan ==
    [op |-> "none", findings |-> <<>>, total_files_scanned |-> 0, exit |-> -1,
     found |-> 0]

SnIdle ==
    sn = [path |-> "", target |-> MissingPath, worm_src |-> MissingPath,
          log |-> MissingPath, callback |-> "default", ioc_count |-> 0, before |-> 0,
          audit |-> <<>>, out |-> NoScan]

SnInit ==
    \E target \in Targets, worm_src \in {WormSource, MissingPath}, log \in Logs,
       callback \in {"default", "raises"}, ioc_count \in {0, 3} :
        sn = [path |-> "target", target |-> target, worm_src |-> worm_src, log |-> log,
              callback |-> callback, ioc_count |-> ioc_count, before |-> ioc_count,
              audit |-> <<>>, out |-> NoScan]

ScanFile ==
    /\ sn.out.op = "none"
    /\ LET out == scan_file(sn.path, sn.target, sn.callback, sn.ioc_count)
       IN  sn' = [sn EXCEPT !.ioc_count = out.ioc_count,
                            !.out = [NoScan EXCEPT !.op = "scan_file",
                                                   !.findings = out.findings]]
    /\ UNCHANGED <<imp, sp, sc, fs, ly, rl, proc, pol, nb, au, fol, dec, ln, sm>>

ScanDirectory ==
    /\ sn.out.op = "none"
    /\ LET out == scan_directory(sn.path, sn.target, sn.callback, sn.ioc_count)
       IN  sn' = [sn EXCEPT !.ioc_count = out.ioc_count,
                            !.out = [NoScan EXCEPT
                                       !.op = "scan_directory",
                                       !.findings = out.findings,
                                       !.total_files_scanned = out.total_files_scanned,
                                       !.found = out.total_iocs_found]]
    /\ UNCHANGED <<imp, sp, sc, fs, ly, rl, proc, pol, nb, au, fol, dec, ln, sm>>

MonitorMain(mode) ==
    /\ sn.out.op = "none"
    /\ sn.callback = "default" /\ sn.ioc_count = 0
    /\ LET out == monitor_main(mode, sn.path, sn.target, sn.worm_src, sn.log)
       IN  sn' = [sn EXCEPT !.out = [NoScan EXCEPT !.op = mode, !.exit = out.exit,
                                                   !.found = out.found]]
    /\ UNCHANGED <<imp, sp, sc, fs, ly, rl, proc, pol, nb, au, fol, dec, ln, sm>>

\* ------------------------------------------------------------------------
\* The decisions of the three gates and the audit log
\* ------------------------------------------------------------------------

\* dec.decisions  the decisions taken so far: gate, what was asked, denied
\* dec.audit      the records the gates appended to the audit log
MaxDecisions == 3

GateImports == {"socket", "http.client", "urllib.x", "json"}
GateCommands ==
    {ListCmd(<<"curl", "hi">>), ListCmd(<<"echo", "hi">>), StrCmd("echo HTTP://x")}
GateOpens == {<<"/tmp/allowed", "r">>, <<"/tmp/allowed", "w">>, <<"/tmp", "r+">>}

DecIdle == dec = [decisions |-> <<>>, audit |-> <<>>]
\* Audit logging is enabled and nothing has been decided yet
DecInit == dec = [decisions |-> <<>>, audit |-> <<>>]

Decision(gate, what, mode, denied) ==
    [gate |-> gate, what |-> what, mode |-> mode, denied |-> denied]

\* An import statement reaches NetworkModuleBlocker.find_spec, which raises
\* or returns None; it makes no call of the audit logger
DecideImport(fullname) ==
    /\ Len(dec.decisions) < MaxDecisions
    /\ dec' = [dec EXCEPT !.decisions =
                 Append(@, Decision("import", fullname, "",
                                    find_spec(fullname) = "WormImportError"))]
    /\ UNCHANGED <<imp, sp, sc, fs, ly, rl, proc, pol, nb, au, fol, sn, ln, sm>>

\* A wrapper of restricted_subprocess checks its command; it makes no call
\* of the audit logger
DecideCommand(cmd) ==
    /\ Len(dec.decisions) < MaxDecisions
    /\ dec' = [dec EXCEPT !.decisions =
                 Append(@, Decision("command", cmd_str(cmd), "",
                                    WrapperCheck(<<cmd>>) = "NetworkCommandError"))]
    /\ UNCHANGED <<imp, sp, sc, fs, ly, rl, proc, pol, nb, au, fol, sn, ln, sm>>

\* open() reaches _sandboxed_open of a read-only sandbox; it makes no call
\* of the audit logger
DecideOpen(file, mode) ==
    /\ Len(dec.decisions) < MaxDecisions
    /\ dec' = [dec EXCEPT !.decisions =
                 Append(@, Decision("open", file, mode,
                     sandboxed_open(FilesystemSandbox("read_only", <<>>, <<>>), file,
                                    mode).result = "FilesystemAccessError"))]
    /\ UNCHANGED <<imp, sp, sc, fs, ly, rl, proc, pol, nb, au, fol, sn, ln, sm>>

\* ------------------------------------------------------------------------
\* worm.py: main, step by step
\* ------------------------------------------------------------------------

\* ln.argv       the mode of the command line and whether its argument is
\*               there (the code of -c, the module of -m); for a script,
\*               what its path names
\* ln.pc         where main is: "flags", the four steps of
\*               setup_worm_environment ("path", "install", "subprocess",
\*               "environ"), "dispatch", "user" (user code is about to run),
\*               "running" (its first statement has run), "exited"
\* ln.env        os.environ.get('WORM_PYTHON'), "" for unset
\* ln.first      what the first statement of user code found: whether the
\*               blocker was first on sys.meta_path, what
\*               sys.modules['subprocess'] was, and WORM_PYTHON
\* ln.exit       the exit status of the process, -1 while it runs
LauncherModes ==
    {"repl", "-c", "-m", "script", "--help", "--info", "--version"}

Argvs ==
    {[mode |-> m, arg |-> TRUE, script |-> "none"] : m \in LauncherModes}
      \cup {[mode |-> m, arg |-> FALSE, script |-> "none"] : m \in {"-c", "-m"}}
      \cup {[mode |-> "script", arg |-> TRUE, script |-> k] :
               k \in {"file", "missing", "dir"}}

NotRun == [blocker_first |-> FALSE, subprocess |-> "", env |-> ""]

LnIdle == ln = [argv |-> [mode |-> "repl", arg |-> TRUE, script |-> "none"],
                pc |-> "exited", env |-> "", first |-> NotRun, exit |-> 0]

LnInit ==
    \E argv \in Argvs \ {[mode |-> "script", arg |-> TRUE, script |-> "none"]},
       env \in {"", "0"} :
        ln = [argv |-> argv, pc |-> "flags", env |-> env, first |-> NotRun, exit |-> -1]

\* main, lines 74-83: the flags that are answered before any restriction
MainFlags ==
    /\ ln.pc = "flags"
    /\ ln' = IF ln.argv.mode \in {"--help", "--info", "--version"}
             THEN [ln EXCEPT !.pc = "exited", !.exit = 0]
             ELSE [ln EXCEPT !.pc = "path"]
    /\ UNCHANGED <<imp, sp, sc, fs, ly, rl, proc, pol, nb, au, fol, sn, dec, sm>>

\* setup_worm_environment: sys.path.insert(0, worm_dir)
SetupPath ==
    /\ ln.pc = "path"
    /\ ln' = [ln EXCEPT !.pc = "install"]
    /\ UNCHANGED <<imp, sp, sc, fs, ly, rl, proc, pol, nb, au, fol, sn, dec, sm>>

\* setup_worm_environment: install_import_restrictions()
SetupInstall ==
    /\ ln.pc = "install"
    /\ ln' = [ln EXCEPT !.pc = "subprocess"]
    /\ ly' = [ly EXCEPT !.meta_path = meta_path_insert(ly.meta_path)]
    /\ UNCHANGED <<imp, sp, sc, fs, rl, proc, pol, nb, au, fol, sn, dec, sm>>

\* setup_worm_environment: sys.modules['subprocess'] = restricted_subprocess
SetupSubprocess ==
    /\ ln.pc = "subprocess"
    /\ ln' = [ln EXCEPT !.pc = "environ"]
    /\ ly' = [ly EXCEPT !.subprocess = "restricted"]
    /\ UNCHANGED <<imp, sp, sc, fs, rl, proc, pol, nb, au, fol, sn, dec, sm>>

\* setup_worm_environment: os.environ['WORM_PYTHON'] = '1'
SetupEnviron ==
    /\ ln.pc = "environ"
    /\ ln' = [ln EXCEPT !.pc = "dispatch", !.env = "1"]
    /\ ly' = [ly EXCEPT !.running = TRUE]
    /\ UNCHANGED <<imp, sp, sc, fs, rl, proc, pol, nb, au, fol, sn, dec, sm>>

\* An import of setup_worm_environment fails: the exception leaves main and
\* the process exits 1
SetupRaises ==
    /\ ln.pc \in {"install", "subprocess"}
    /\ ln' = [ln EXCEPT !.pc = "exited", !.exit = 1]
    /\ UNCHANGED <<imp, sp, sc, fs, ly, rl, proc, pol, nb, au, fol, sn, dec, sm>>

\* main, lines 100-141: the mode is told, its argument checked, and for a
\* script the file is read
Dispatch ==
    /\ ln.pc = "dispatch"
    /\ ln' = IF ln.argv.mode \in {"-c", "-m"} /\ ~ln.argv.arg
             THEN [ln EXCEPT !.pc = "exited", !.exit = 1]
             ELSE IF ln.argv.mode = "script" /\ ln.argv.script = "missing"
             THEN [ln EXCEPT !.pc = "exited", !.exit = 2]
             ELSE IF ln.argv.mode = "script" /\ ln.argv.script = "dir"
             THEN [ln EXCEPT !.pc = "exited", !.exit = 1]
             ELSE [ln EXCEPT !.pc = "user"]
    /\ UNCHANGED <<imp, sp, sc, fs, ly, rl, proc, pol, nb, au, fol, sn, dec, sm>>

\* The first statement of user code runs (in code.interact, exec or
\* runpy.run_module)
UserFirstStatement ==
    /\ ln.pc = "user"
    /\ ln' = [ln EXCEPT !.pc = "running",
                        !.first = [blocker_first |->
                                      ly.meta_path[1] = "NetworkModuleBlocker",
                                   subprocess |-> ly.subprocess,
                                   env |-> ln.env]]
    /\ UNCHANGED <<imp, sp, sc, fs, ly, rl, proc, pol, nb, au, fol, sn, dec, sm>>

\* User code ends: it returns (main returns 0), an exception leaves it
\* (exit 1), or it calls sys.exit(status)
UserCodeEnds(status) ==
    /\ ln.pc = "running"
    /\ ln' = [ln EXCEPT !.pc = "exited", !.exit = status]
    /\ UNCHANGED <<imp, sp, sc, fs, ly, rl, proc, pol, nb, au, fol, sn, dec, sm>>

\* ------------------------------------------------------------------------
\* import_restrictions.py: install_import_restrictions and sys.modules
\* ------------------------------------------------------------------------

\* sm.meta_path   sys.meta_path; "PathFinder" stands for the interpreter's
\*                own finders
\* sm.modules     the names in sys.modules
\* sm.last        the last import attempt: its name, how it ended, and
\*                whether install_import_restrictions had been called
\* The modules of this model: blocked ones, sub-names of blocked ones that
\* are not themselves in BLOCKED_MODULES, harmless ones, and a name that no
\* finder knows.
ModuleNames ==
    {"socket", "_socket", "http", "http.client", "http.cookies", "urllib",
     "urllib.parse", "urllib.error", "json", "ssl", "asyncio", "nosuch"}

\* The names the interpreter's finders have a module for
Existing == ModuleNames \ {"nosuch"}

\* The imports a module's body runs when it is loaded
BodyImports(name) ==
    IF name = "socket" THEN <<"_socket">>
    ELSE IF name = "http.client" THEN <<"socket", "urllib.parse">>
    ELSE IF name = "ssl" THEN <<"socket">>
    ELSE IF name = "asyncio" THEN <<"json", "socket", "ssl">>
    ELSE <<>>

\* name.rpartition('.')[0]
ParentOf(name) ==
    LET dots == {i \in 1..Len(name) : SubSeq(name, i, i) = "."}
    IN  IF dots = {} THEN ""
        ELSE SubSeq(name, 1, (CHOOSE i \in dots : \A j \in dots : j <= i) - 1)

\* The finders of sys.meta_path asked in order: the blocker raises or
\* returns None, the interpreter's finders return a spec or None
RECURSIVE find_in_meta_path(_, _)
find_in_meta_path(meta_path, name) ==
    IF meta_path = <<>> THEN "ModuleNotFoundError"
    ELSE IF Head(meta_path) = "NetworkModuleBlocker"
    THEN IF find_spec(name) = "WormImportError" THEN "WormImportError"
         ELSE find_in_meta_path(Tail(meta_path), name)
    ELSE IF name \in Existing THEN "spec"
         ELSE find_in_meta_path(Tail(meta_path), name)

\* import name: a name in sys.modules is returned as it is; otherwise the
\* parent package is imported, the finders are asked, the module is put in
\* sys.modules and its body run; if the body raises, the module is taken
\* out again
RECURSIVE import_module(_, _, _)
RECURSIVE exec_module(_, _, _)
import_module(meta_path, modules, name) ==
    IF name \in modules THEN [modules |-> modules, result |-> "module"]
    ELSE
        LET parent == ParentOf(name)
            above == IF parent = "" THEN [modules |-> modules, result |-> "module"]
                     ELSE import_module(meta_path, modules, parent)
        IN  IF above.result # "module" THEN above
            ELSE LET found == find_in_meta_path(meta_path, name)
                 IN  IF found # "spec" THEN [modules |-> above.modules, result |-> found]
                     ELSE LET body == exec_module(meta_path, above.modules \cup {name},
                                                  BodyImports(name))
                          IN  IF body.result = "module" THEN body
                              ELSE [modules |-> body.modules \ {name},
                                    result |-> body.result]

exec_module(meta_path, modules, imports) ==
    IF imports = <<>> THEN [modules |-> modules, result |-> "module"]
    ELSE LET first == import_module(meta_path, modules, Head(imports))
         IN  IF first.result # "module" THEN first
             ELSE exec_module(meta_path, first.modules, Tail(imports))

\* install_import_restrictions, lines 110-118, with the sub-names left in
modules_to_remove_Exact(modules) ==
    {module_name \in modules : module_name \in BLOCKED_MODULES}

\* install_import_restrictions, lines 110-118: the loaded names that are
\* blocked or start with a blocked name and a dot
modules_to_remove(modules) ==
    {module_name \in modules :
        \/ module_name \in BLOCKED_MODULES
        \/ \E blocked \in BLOCKED_MODULES : startswith(module_name, blocked \o ".")}

NoImport == [name |-> "", result |-> "none", installed |-> FALSE]

SmIdle == sm = [meta_path |-> <<"PathFinder">>, modules |-> {}, last |-> NoImport]

SmInit == sm = [meta_path |-> <<"PathFinder">>, modules |-> {}, last |-> NoImport]

\* import name, by the program or a library
Import(name) ==
    /\ LET done == import_module(sm.meta_path, sm.modules, name)
       IN  sm' = [sm EXCEPT !.modules = done.modules,
                            !.last = [name |-> name, result |-> done.result,
                                      installed |-> Blockers(sm.meta_path) > 0]]
    /\ UNCHANGED <<imp, sp, sc, fs, ly, rl, proc, pol, nb, au, fol, sn, dec, ln>>

\* install_import_restrictions()
Install ==
    /\ Blockers(sm.meta_path) < MaxInstalls
    /\ sm' = [sm EXCEPT !.meta_path = meta_path_insert(sm.meta_path),
                        !.modules = sm.modules \ modules_to_remove(sm.modules)]
    /\ UNCHANGED <<imp, sp, sc, fs, ly, rl, proc, pol, nb, au, fol, sn, dec, ln>>

\* ------------------------------------------------------------------------
\* Specifications
\* ------------------------------------------------------------------------

vars == <<imp, sp, sc, fs, ly, rl, proc, pol, nb, au, fol, sn, dec, ln, sm>>

InitImport == ImpInit /\ SpIdle /\ ScIdle /\ FsIdle /\ LyInit /\ RlIdle /\ ProcIdle /\ PolIdle /\ NbIdle /\ AuIdle /\ FolIdle /\ SnIdle /\ DecIdle /\ LnIdle /\ SmIdle

NextImport ==
    \/ FindSpec
    \/ IsModuleAllowed

SpecImport == InitImport /\ [][NextImport]_vars

InitSubprocess == SpInit /\ ImpIdle /\ ScIdle /\ FsIdle /\ LyInit /\ RlIdle /\ ProcIdle /\ PolIdle /\ NbIdle /\ AuIdle /\ FolIdle /\ SnIdle /\ DecIdle /\ LnIdle /\ SmIdle

NextSubprocess ==
    \/ CheckCommandSafety
    \/ \E w \in Wrappers, style \in Styles, outcome \in RealOutcomes :
          Wrapper(w, style, outcome)

SpecSubprocess == InitSubprocess /\ [][NextSubprocess]_vars

InitSeccomp == ScInit /\ ImpIdle /\ SpIdle /\ FsIdle /\ LyInit /\ RlIdle /\ ProcIdle /\ PolIdle /\ NbIdle /\ AuIdle /\ FolIdle /\ SnIdle /\ DecIdle /\ LnIdle /\ SmIdle

NextSeccomp == FilterSyscall

SpecSeccomp == InitSeccomp /\ [][NextSeccomp]_vars

InitFilesystem == FsInit /\ ImpIdle /\ SpIdle /\ ScIdle /\ LyInit /\ RlIdle /\ ProcIdle /\ PolIdle /\ NbIdle /\ AuIdle /\ FolIdle /\ SnIdle /\ DecIdle /\ LnIdle /\ SmIdle

NextFilesystem == SandboxedOpen

SpecFilesystem == InitFilesystem /\ [][NextFilesystem]_vars

InitLayers == LyInit /\ ImpIdle /\ SpIdle /\ ScIdle /\ FsIdle /\ RlIdle /\ ProcIdle /\ PolIdle /\ NbIdle /\ AuIdle /\ FolIdle /\ SnIdle /\ DecIdle /\ LnIdle /\ SmIdle

NextLayers ==
    \/ InstallImportRestrictions
    \/ SetupWormEnvironment
    \/ \E mode \in SandboxModes : ConstructSandbox(mode)
    \/ \E i \in 1..MaxSandboxes : SandboxEnable(i)
    \/ \E i \in 1..MaxSandboxes : SandboxDisable(i)
    \/ \E mode \in SandboxModes : EnableFilesystemSandbox(mode)
    \/ DisableFilesystemSandbox
    \/ \E level \in Levels : EnableRestrictedBuiltins(level)
    \/ DisableRestrictedBuiltins
    \/ EnableAuditLogging
    \/ GetAuditLogger
    \/ DisableAuditLogging

SpecLayers == InitLayers /\ [][NextLayers]_vars

InitResource == RlInit /\ ImpIdle /\ SpIdle /\ ScIdle /\ FsIdle /\ LyInit /\ ProcIdle /\ PolIdle /\ NbIdle /\ AuIdle /\ FolIdle /\ SnIdle /\ DecIdle /\ LnIdle /\ SmIdle

NextResource ==
    \/ \E seconds \in Seconds : SetCpuLimit(seconds)
    \/ \E megabytes \in Megabytes : SetMemoryLimit(megabytes)
    \/ \E megabytes \in Megabytes : SetFileSizeLimit(megabytes)
    \/ \E max_files \in MaxFiles : SetOpenFilesLimit(max_files)
    \/ \E profile \in Profiles : SetStandardLimits(profile)
    \/ GetCurrentUsage

SpecResource == InitResource /\ [][NextResource]_vars

InitScript == ProcInit /\ ImpIdle /\ SpIdle /\ ScIdle /\ FsIdle /\ LyInit /\ PolIdle /\ NbIdle /\ AuIdle /\ FolIdle /\ SnIdle /\ DecIdle /\ LnIdle /\ SmIdle

NextScript ==
    \/ Compute
    \/ Wait
    \/ Allocate
    \/ Catch
    \/ Uncaught

SpecScript == InitScript /\ [][NextScript]_vars

InitPolicy == PolInit /\ RlInit /\ LyInit /\ ImpIdle /\ SpIdle /\ ScIdle /\ FsIdle /\ ProcIdle /\ NbIdle /\ AuIdle /\ FolIdle /\ SnIdle /\ DecIdle /\ LnIdle /\ SmIdle

NextPolicy ==
    \/ PolicySetStandardLimits
    \/ PolicySandboxEnable
    \/ PolicyEnableRestrictedBuiltins

SpecPolicy == InitPolicy /\ [][NextPolicy]_vars

InitNetworkBlocking ==
    NbInit /\ ImpIdle /\ SpIdle /\ ScIdle /\ FsIdle /\ LyInit /\ RlIdle /\ ProcIdle /\ PolIdle
      /\ AuIdle /\ FolIdle /\ SnIdle /\ DecIdle /\ LnIdle /\ SmIdle

NextNetworkBlocking == EnableNetworkBlocking

SpecNetworkBlocking == InitNetworkBlocking /\ [][NextNetworkBlocking]_vars

InitAudit ==
    AuInit /\ ImpIdle /\ SpIdle /\ ScIdle /\ FsIdle /\ LyInit /\ RlIdle /\ ProcIdle /\ PolIdle
      /\ NbIdle /\ FolIdle /\ SnIdle /\ DecIdle /\ LnIdle /\ SmIdle

NextAudit ==
    \/ \E c \in LogCalls : Log(c[1], c[2], c[3])
    \/ ReadAuditLog
    \/ \E event_type \in SearchTypes : SearchAuditLog(event_type)
    \/ MonitorAuditLog

SpecAudit == InitAudit /\ [][NextAudit]_vars

InitAuditReaders ==
    AuReadInit /\ ImpIdle /\ SpIdle /\ ScIdle /\ FsIdle /\ LyInit /\ RlIdle /\ ProcIdle
      /\ PolIdle /\ NbIdle /\ FolIdle /\ SnIdle /\ DecIdle /\ LnIdle /\ SmIdle

NextAuditReaders ==
    \/ ReadAuditLog
    \/ \E event_type \in SearchTypes : SearchAuditLog(event_type)
    \/ MonitorAuditLog

SpecAuditReaders == InitAuditReaders /\ [][NextAuditReaders]_vars

InitFollow ==
    FolInit /\ ImpIdle /\ SpIdle /\ ScIdle /\ FsIdle /\ LyInit /\ RlIdle /\ ProcIdle
      /\ PolIdle /\ NbIdle /\ AuIdle /\ SnIdle /\ DecIdle /\ LnIdle /\ SmIdle

NextFollow ==
    \/ \E session \in Sessions, kind \in RecordKinds : AppendRecord(session, kind)
    \/ \E session \in Sessions : AppendBegin(session)
    \/ AppendEnd
    \/ ReadLine
    \/ Wake
    \/ KeyboardInterrupt

SpecFollow == InitFollow /\ [][NextFollow]_vars

InitScan ==
    SnInit /\ ImpIdle /\ SpIdle /\ ScIdle /\ FsIdle /\ LyInit /\ RlIdle /\ ProcIdle
      /\ PolIdle /\ NbIdle /\ AuIdle /\ FolIdle /\ DecIdle /\ LnIdle /\ SmIdle

NextScan ==
    \/ ScanFile
    \/ ScanDirectory
    \/ \E mode \in Modes : MonitorMain(mode)

SpecScan == InitScan /\ [][NextScan]_vars

InitDecisions ==
    DecInit /\ ImpIdle /\ SpIdle /\ ScIdle /\ FsIdle /\ LyInit /\ RlIdle /\ ProcIdle
      /\ PolIdle /\ NbIdle /\ AuIdle /\ FolIdle /\ SnIdle /\ LnIdle /\ SmIdle

NextDecisions ==
    \/ \E fullname \in GateImports : DecideImport(fullname)
    \/ \E cmd \in GateCommands : DecideCommand(cmd)
    \/ \E o \in GateOpens : DecideOpen(o[1], o[2])

SpecDecisions == InitDecisions /\ [][NextDecisions]_vars

InitLauncher ==
    LnInit /\ LyInit /\ ImpIdle /\ SpIdle /\ ScIdle /\ FsIdle /\ RlIdle /\ ProcIdle
      /\ PolIdle /\ NbIdle /\ AuIdle /\ FolIdle /\ SnIdle /\ DecIdle /\ SmIdle

NextLauncher ==
    \/ MainFlags
    \/ SetupPath
    \/ SetupInstall
    \/ SetupSubprocess
    \/ SetupEnviron
    \/ SetupRaises
    \/ Dispatch
    \/ UserFirstStatement
    \/ \E status \in {0, 1, 7} : UserCodeEnds(status)

SpecLauncher == InitLauncher /\ [][NextLauncher]_vars

InitImportSystem ==
    SmInit /\ LyInit /\ ImpIdle /\ SpIdle /\ ScIdle /\ FsIdle /\ RlIdle /\ ProcIdle
      /\ PolIdle /\ NbIdle /\ AuIdle /\ FolIdle /\ SnIdle /\ DecIdle /\ LnIdle

NextImportSystem ==
    \/ Install
    \/ \E name \in ModuleNames : Import(name)

SpecImportSystem == InitImportSystem /\ [][NextImportSystem]_vars

\* ------------------------------------------------------------------------
\* Properties
\* ------------------------------------------------------------------------

\* The prefixes of a dotted name that end right before a dot, and the name
\* itself: "http.client.x" gives "http", "http.client", "http.client.x".
DottedPrefixes(name) ==
    {name} \cup {SubSeq(name, 1, k - 1) :
                    k \in {i \in 1..Len(name) : CharAt(name, i) = "."}}

InDenySet(name) == DottedPrefixes(name) \cap BLOCKED_MODULES # {}

\* C1: the import gate denies a name if and only if the name is a blocked
\* module or a dotted sub-name of one: find_spec raises WormImportError and
\* is_module_allowed returns False exactly for those names, and find_spec
\* returns None and is_module_allowed returns True for every other name.
C1_ImportGateIff ==
    /\ imp.op = "find_spec" =>
          /\ InDenySet(imp.name) => imp.result = "WormImportError"
          /\ ~InDenySet(imp.name) => imp.result = "None"
    /\ imp.op = "is_module_allowed" =>
          /\ InDenySet(imp.name) => imp.result = "False"
          /\ ~InDenySet(imp.name) => imp.result = "True"

\* 'sockets' only shares a string prefix with 'socket': loading proceeds.
C1_Witness ==
    imp.op = "find_spec" /\ imp.name = "sockets" /\ imp.result = "None"

\* The first token of a command as the caller wrote it: the first argument of
\* a list; for a shell-style string its first shell word, or, when the quoting
\* is unbalanced, its first blank-delimited word.
FirstToken(cmd) ==
    IF cmd.kind = "list" THEN (IF cmd.items # <<>> THEN cmd.items[1] ELSE "")
    ELSE LET lexed == shlex_split(cmd.text)
         IN  IF lexed.err THEN FirstWord(cmd.text)
             ELSE IF lexed.parts # <<>> THEN lexed.parts[1] ELSE ""

\* The command names a blocked executable or its text holds a blocked pattern.
NamesBlockedCommand(cmd) == LastSegment(FirstToken(cmd)) \in BLOCKED_COMMANDS
HoldsBlockedPattern(cmd) ==
    \E k \in 1..Len(BLOCKED_PATTERNS) : contains(lower(cmd_str(cmd)), BLOCKED_PATTERNS[k])

\* C2: _check_command_safety raises NetworkCommandError for every command,
\* list or shell-style string, whose base executable name (the final path
\* segment of its first token) is in BLOCKED_COMMANDS or whose lower-cased
\* text contains an entry of BLOCKED_PATTERNS.
C2_BlockedCommandDenied ==
    (sp.op = "_check_command_safety"
        /\ (NamesBlockedCommand(sp.cmd) \/ HoldsBlockedPattern(sp.cmd)))
    => sp.result = "NetworkCommandError"

\* C3: whenever the command handed to a wrapper is one the command check
\* denies, the wrapper raises NetworkCommandError and the real subprocess
\* primitive is never invoked, whether the command is the first positional
\* argument or the args keyword.
C3_DeniedNeverSpawns ==
    (sp.op \in Wrappers /\ check_command_safety(sp.cmd) = "NetworkCommandError")
    => (sp.result = "NetworkCommandError" /\ sp.real_calls = <<>>)

\* The x86_64 numbers of socket, connect, accept, sendto, recvfrom, sendmsg,
\* recvmsg, bind, listen, socketpair, setsockopt, getsockopt, accept4,
\* recvmmsg and sendmmsg
NetworkSyscalls == {41, 42, 43, 44, 45, 46, 47, 49, 50, 53, 54, 55, 288, 299, 307}

\* C4: on x86_64, for every syscall number outside the blocked set, the BPF
\* program built by enable_network_blocking ends in SECCOMP_RET_ALLOW.
C4_OtherSyscallsAllowed ==
    (sc.op = "filtered" /\ sc.arch = AUDIT_ARCH_X86_64 /\ sc.nr \notin NetworkSyscalls)
    => sc.ret = SECCOMP_RET_ALLOW

\* C5: on x86_64, for every syscall number in the blocked set, the BPF
\* program ends in the return SECCOMP_RET_ERRNO with errno 1 (EPERM), never
\* in a kill action and never in ALLOW.
C5_NetworkSyscallsEperm ==
    (sc.op = "filtered" /\ sc.arch = AUDIT_ARCH_X86_64 /\ sc.nr \in NetworkSyscalls)
    => /\ RetAction(sc.ret) = SECCOMP_RET_ERRNO
       /\ RetData(sc.ret) = 1
       /\ sc.ret # SECCOMP_RET_KILL
       /\ sc.ret # SECCOMP_RET_ALLOW

\* sendmmsg (307), listed before recvmmsg (299) in the dict, fails with EPERM.
C5_Witness ==
    /\ sc.op = "filtered" /\ sc.arch = AUDIT_ARCH_X86_64 /\ sc.nr = 307
    /\ sc.ret = Word(5, 1)

\* The open modes that request writing
WriteModes == {"w", "wb", "a", "x", "r+", "rb+"}

\* The path names something that exists on the host
Exists(file) == Resolve(file).ok /\ Resolve(file).parts \in Nodes

CanonText(parts) == "/" \o join("/", parts)
LiesUnder(canon, root) ==
    canon = root \/ root = "/" \/ startswith(canon, root \o "/")

\* C7: in whitelist mode an open (read or write) is allowed if and only if
\* the canonical path equals or lies under some allowed root; in blacklist
\* mode it is denied if and only if the canonical path equals or lies under
\* some denied root; containment is on whole path components.
C7_RootContainment ==
    (fs.op = "_sandboxed_open" /\ Resolve(fs.file).ok) =>
        LET canon == CanonText(Resolve(fs.file).parts)
            underAllowed == \E i \in 1..Len(fs.self.allowed_paths) :
                               LiesUnder(canon, CanonText(fs.self.allowed_paths[i]))
            underDenied == \E i \in 1..Len(fs.self.denied_paths) :
                               LiesUnder(canon, CanonText(fs.self.denied_paths[i]))
        IN  /\ fs.self.mode = "whitelist" => (fs.result = "forwarded" <=> underAllowed)
            /\ fs.self.mode = "blacklist" =>
                  (fs.result = "FilesystemAccessError" <=> underDenied)

\* /tmp/allowed-evil is not under the allowed root /tmp/allowed.
C7_Witness ==
    /\ fs.op = "_sandboxed_open" /\ fs.self.mode = "whitelist"
    /\ fs.self.allowed_paths = <<(<<"tmp", "allowed">>)>>
    /\ fs.file = "/tmp/allowed-evil/tmp"
    /\ fs.result = "FilesystemAccessError"

\* C8: in read_only, whitelist and blacklist modes, a path that cannot be
\* canonicalized is denied with FilesystemAccessError and the original open
\* is not called, for read and write modes alike.
C8_FailClosed ==
    (fs.op = "_sandboxed_open"
        /\ fs.self.mode \in {"read_only", "whitelist", "blacklist"}
        /\ ~Resolve(fs.file).ok)
    => (fs.result = "FilesystemAccessError" /\ fs.original_open = <<>>)

\* A read of a looping link under a blacklist that does not name it is refused.
C8_Witness ==
    /\ fs.op = "_sandboxed_open" /\ fs.self.mode = "blacklist"
    /\ fs.file = "/tmp/loop" /\ fs.mode = "r"
    /\ fs.result = "FilesystemAccessError"

\* The layers that are in force in a state of the process
ImportBlockerInForce(l) == l.meta_path[1] = "NetworkModuleBlocker"
SubprocessFilterInForce(l) == l.subprocess = "restricted"
FilesystemSandboxInForce(l) == HookChain(l, l.open)
BuiltinsRestricted(l) == {b \in {"eval", "exec", "compile"} : l[b] = "restricted"}
AuditLoggingInForce(l) == l.audit_logger = "enabled"

\* C9: once a session is running, no operation of the enforcement modules
\* removes or loosens an installed layer: the import blocker, the subprocess
\* filter, the filesystem sandbox, the builtin restrictions and audit logging
\* each stay in force from installation on.
C9_LayersStayInForce ==
    [][ly.running =>
          /\ ImportBlockerInForce(ly) => ImportBlockerInForce(ly')
          /\ SubprocessFilterInForce(ly) => SubprocessFilterInForce(ly')
          /\ FilesystemSandboxInForce(ly) \subseteq FilesystemSandboxInForce(ly')
          /\ BuiltinsRestricted(ly) \subseteq BuiltinsRestricted(ly')
          /\ AuditLoggingInForce(ly) => AuditLoggingInForce(ly')]_vars

\* The ceiling new is looser than the installed ceiling old
RlimitLoosened(old, new) == old # RLIM_INFINITY /\ RlimGreater(new, old)
AlarmLoosened(old, new) == old # 0 /\ (new = 0 \/ new > old)

\* C10: resource ceilings are never loosened within a process: no call of
\* set_standard_limits or of a set_*_limit function leaves an installed
\* ceiling on CPU time, memory, file size or open files, or a pending
\* fallback alarm, higher than it was before the call.
C10_CeilingsNeverLoosened ==
    [][/\ \A r \in Resources : ~RlimitLoosened(rl.limits[r][1], rl'.limits[r][1])
       /\ ~AlarmLoosened(rl.alarm, rl'.alarm)]_vars

\* The ceilings of the three profiles, megabytes as MB*1024*1024 bytes
\* (counted here in units of 1024 bytes)
ProfileCeilings ==
    [strict |-> [RLIMIT_CPU |-> 30, RLIMIT_AS |-> 512 * 1024,
                 RLIMIT_FSIZE |-> 10 * 1024, RLIMIT_NOFILE |-> 100],
     moderate |-> [RLIMIT_CPU |-> 300, RLIMIT_AS |-> 2048 * 1024,
                   RLIMIT_FSIZE |-> 100 * 1024, RLIMIT_NOFILE |-> 1000],
     relaxed |-> [RLIMIT_CPU |-> 3600, RLIMIT_AS |-> 4096 * 1024,
                  RLIMIT_FSIZE |-> 1024 * 1024, RLIMIT_NOFILE |-> 10000]]

KeyOf == [RLIMIT_CPU |-> "cpu", RLIMIT_AS |-> "memory",
          RLIMIT_FSIZE |-> "file_size", RLIMIT_NOFILE |-> "open_files"]

LastCallIsProfile(p) == rl.call = [fn |-> "set_standard_limits", arg |-> p]

\* Every ceiling reported True after set_standard_limits(p) is p's ceiling
\* (for cpu, as RLIMIT_CPU or as the fallback alarm)
RequestsProfileCeilings ==
    \A p \in {"strict", "moderate", "relaxed"} : LastCallIsProfile(p) =>
        \A r \in Resources : rl.results[KeyOf[r]] = "True" =>
            \/ rl.limits[r] = <<ProfileCeilings[p][r], ProfileCeilings[p][r]>>
            \/ r = "RLIMIT_CPU" /\ rl.alarm = ProfileCeilings[p][r]

\* C11: set_standard_limits requests exactly the ceilings of its profile
\* (strict 30 s / 512 MB / 10 MB / 100, moderate 300 s / 2048 MB / 100 MB /
\* 1000, relaxed 3600 s / 4096 MB / 1024 MB / 10000), and whenever
\* set_standard_limits('strict') reports True for cpu and memory, a following
\* get_current_usage reports cpu_limit = 30 and memory_limit_mb = 512.
C11_ProfileCeilingsReported ==
    /\ RequestsProfileCeilings
    /\ (/\ LastCallIsProfile("strict")
        /\ rl.results.cpu = "True" /\ rl.results.memory = "True"
        /\ rl.usage.called)
          => /\ rl.usage.limits
             /\ rl.usage.cpu_limit = <<30>>
             /\ rl.usage.memory_limit_mb = <<512>>

KnownProfiles == {"strict", "moderate", "relaxed"}

\* The platform refuses setrlimit(r, (v, v)) in the process state l
Rejected(l, r, v) ==
    \/ r \in l.platform.rejects
    \/ RlimGreater(v, l.limits[r][2]) /\ ~l.platform.privileged

\* This step is a call set_standard_limits(p)
IsSetStandardLimits(p) ==
    /\ rl' # rl
    /\ rl'.call = [fn |-> "set_standard_limits", arg |-> p]
    /\ ~rl'.usage.called

\* set_standard_limits(p) reports all four keys, installs every ceiling among
\* rs that the platform accepts and reports True for it, and reports False
\* for every ceiling among rs that the platform rejects
CeilingsIndependent(rs) ==
    \A p \in KnownProfiles : IsSetStandardLimits(p) =>
        /\ \A k \in ResultKeys : rl'.results[k] \in {"True", "False"}
        /\ \A r \in rs :
              LET v == ProfileCeilings[p][r]
              IN  IF Rejected(rl, r, v)
                  THEN /\ rl'.results[KeyOf[r]] = "False"
                       /\ rl'.limits[r] = rl.limits[r]
                  ELSE /\ rl'.results[KeyOf[r]] = "True"
                       /\ rl'.limits[r] = <<v, v>>

\* Holds of memory, file size and open files
OtherCeilingsIndependent ==
    [][CeilingsIndependent(Resources \ {"RLIMIT_CPU"})]_vars

\* C12: for a known profile set_standard_limits attempts all four ceilings
\* whatever subset of them the platform rejects: a rejected ceiling yields
\* False under its own key only, no exception reaches the caller, and every
\* other ceiling is installed and reported True under its own key.
C12_RejectedCeilingAlone == [][CeilingsIndependent(Resources)]_vars

\* C13: once a CPU or memory ceiling installed by the resource governor is
\* exceeded, the script is terminated: it never regains control, and cannot
\* catch the condition as an exception and continue running.
C13_ExceededIsFatal == proc.exceeded # {} => proc.state # "running"

\* The values each policy selection recognises
Recognised ==
    [set_standard_limits |-> {"strict", "moderate", "relaxed", "disabled"},
     FilesystemSandbox_enable |-> {"disabled", "read_only", "whitelist", "blacklist"},
     enable_restricted_builtins |-> {"strict", "moderate", "minimal"}]

UnknownValueSelected ==
    \/ pol.op = "set_standard_limits" /\ pol.value \notin Recognised.set_standard_limits
    \/ pol.op = "FilesystemSandbox.enable"
          /\ pol.value \notin Recognised.FilesystemSandbox_enable
    \/ pol.op = "enable_restricted_builtins"
          /\ pol.value \notin Recognised.enable_restricted_builtins

\* The selection left some enforcement in place: a ceiling, a sandbox that
\* denies some open of a path that exists, a restricted builtin
EnforcesSomething ==
    \/ \E r \in Resources : rl.limits[r][1] # RLIM_INFINITY
    \/ rl.alarm # 0
    \/ \E i \in HookChain(ly, ly.open), f \in AbsPaths(MaxPathComps), m \in OpenModes :
          /\ Resolve(f).ok
          /\ sandboxed_open(FilesystemSandbox(ly.sandboxes[i].mode, <<>>, <<>>), f, m).result
                = "FilesystemAccessError"
    \/ BuiltinsRestricted(ly) # {}

\* C14: a policy value outside the recognised set is rejected with an error:
\* set_standard_limits with an unknown profile, FilesystemSandbox with an
\* unknown mode then enabled, and enable_restricted_builtins with an unknown
\* level each raise, and never report success while enforcing nothing.
C14_UnknownPolicyRejected ==
    UnknownValueSelected =>
        /\ pol.raised # "none"
        /\ ~(pol.ret \in {"True", "dict"} /\ ~EnforcesSomething)

\* The system calls the installed filters deny
DeniedSyscalls(n) ==
    {nr \in 0..MaxSyscallNr : ~SyscallAllowed(n.filters, n.platform.arch, nr)}

\* C15: every call of enable_network_blocking returns a boolean and raises
\* no exception (False when seccomp is unavailable or a prctl call fails);
\* across any sequence of calls the set of denied system calls never shrinks
\* and no filter is removed.
C15_InstallReturnsAndNeverWeakens ==
    [][/\ nb'.raised = "none"
       /\ nb'.ret \in {"True", "False"}
       /\ (~is_seccomp_available(nb.platform).ret = "True") => nb'.ret = "False"
       /\ DeniedSyscalls(nb) \subseteq DeniedSyscalls(nb')
       /\ Len(nb'.filters) >= Len(nb.filters)
       /\ SubSeq(nb'.filters, 1, Len(nb.filters)) = nb.filters]_vars

\* The part of it about the filters holds
FiltersNeverWeaken ==
    [][/\ DeniedSyscalls(nb) \subseteq DeniedSyscalls(nb')
       /\ SubSeq(nb'.filters, 1, Len(nb.filters)) = nb.filters]_vars

\* What a call logged: the event type and the data its method documents
LoggedType(call) == log_data(au, call.method, call.x, call.y).event_type
LoggedData(call) == log_data(au, call.method, call.x, call.y).data

\* A value as JSON gives it back: a tuple has become a list
RECURSIVE ReadBack(_)
ReadBack(v) ==
    [k |-> v.k,
     t |-> IF v.t = "tuple" THEN "list" ELSE v.t,
     s |-> v.s,
     items |-> [i \in 1..Len(v.items) |-> ReadBack(v.items[i])]]

\* The records the file held before the logger was made, and the ones read
\* after them
EarlierRecords == read_audit_log(au.earlier).entries
NewRecords(entries) == SubSeq(entries, Len(EarlierRecords) + 1, Len(entries))

IsIoc(entry) == get_event_type(entry) = PyStr("IOC_DETECTED")
RoundTripCase == au.enabled /\ au.writable

\* C16 (as stated): with logging enabled and a writable file, after N log_*
\* calls read_audit_log returns the earlier records followed by exactly N new
\* records in call order, each with the event_type and data that were logged;
\* search_audit_log(event_type='IOC_DETECTED') returns exactly the records
\* written by log_ioc_detected, in order, each carrying SEVERITY = CRITICAL.
C16_RoundTrip ==
    RoundTripCase =>
        /\ au.out.op = "read_audit_log" =>
              /\ au.out.raised = "none"
              /\ Len(au.out.entries) = Len(EarlierRecords) + Len(au.calls)
              /\ SubSeq(au.out.entries, 1, Len(EarlierRecords)) = EarlierRecords
              /\ \A i \in 1..Len(au.calls) :
                    LET entry == NewRecords(au.out.entries)[i]
                    IN  /\ HasKey(entry, "event_type") /\ HasKey(entry, "data")
                        /\ GetItem(entry, "event_type") = PyStr(LoggedType(au.calls[i]))
                        /\ GetItem(entry, "data") = Keyed("", LoggedData(au.calls[i]))
        /\ au.out.op = "search_audit_log:IOC_DETECTED" =>
              LET ioc == SelectSeq(au.calls, LAMBDA call : call.method = "log_ioc_detected")
                  earlier == SelectSeq(EarlierRecords, IsIoc)
              IN  /\ au.out.raised = "none"
                  /\ Len(au.out.entries) = Len(earlier) + Len(ioc)
                  /\ \A i \in 1..Len(au.out.entries) :
                        /\ IsIoc(au.out.entries[i])
                        /\ HasKey(GetItem(au.out.entries[i], "data"), "SEVERITY")
                        /\ GetItem(GetItem(au.out.entries[i], "data"), "SEVERITY")
                              = PyStr("CRITICAL")

\* A call left a record: it returned, and json.dumps could serialise its entry
Written(call) == call.raised = "none" /\ Serialisable(LoggedData(call))

\* C16 (amended): with logging enabled and a writable file, read_audit_log
\* returns the earlier records followed by exactly one new record for each
\* call that returned and whose payload json.dumps can serialise, in call
\* order (a call that raised or whose payload cannot be serialised leaves no
\* record), each with the event_type that was logged and the data as JSON
\* gives it back (a tuple comes back as a list); the search for IOC_DETECTED
\* returns exactly the records whose event_type is IOC_DETECTED, in order,
\* and each of those written by log_ioc_detected carries SEVERITY = CRITICAL.
C16_RoundTripOfWrittenRecords ==
    RoundTripCase =>
        LET written == SelectSeq(au.calls, Written)
        IN  /\ au.out.op = "read_audit_log" =>
                  /\ au.out.raised = "none"
                  /\ Len(au.out.entries) = Len(EarlierRecords) + Len(written)
                  /\ SubSeq(au.out.entries, 1, Len(EarlierRecords)) = EarlierRecords
                  /\ \A i \in 1..Len(written) :
                        LET entry == NewRecords(au.out.entries)[i]
                        IN  /\ HasKey(entry, "event_type") /\ HasKey(entry, "data")
                            /\ GetItem(entry, "event_type") = PyStr(LoggedType(written[i]))
                            /\ GetItem(entry, "data")
                                  = Keyed("", ReadBack(LoggedData(written[i])))
            /\ au.out.op = "search_audit_log:IOC_DETECTED" =>
                  LET ioc == SelectSeq(written,
                                 LAMBDA call : LoggedType(call) = "IOC_DETECTED")
                      earlier == SelectSeq(EarlierRecords, IsIoc)
                  IN  /\ au.out.raised = "none"
                      /\ Len(au.out.entries) = Len(earlier) + Len(ioc)
                      /\ SubSeq(au.out.entries, 1, Len(earlier)) = earlier
                      /\ \A i \in 1..Len(ioc) :
                            LET entry == au.out.entries[Len(earlier) + i]
                            IN  /\ IsIoc(entry)
                                /\ GetItem(entry, "data")
                                      = Keyed("", ReadBack(LoggedData(ioc[i])))
                                /\ ioc[i].method = "log_ioc_detected" =>
                                      GetItem(GetItem(entry, "data"), "SEVERITY")
                                         = PyStr("CRITICAL")

\* Earlier records in the file, then a session start with a tuple of
\* arguments and a finding were logged, and the file was read back
C16_Witness ==
    /\ RoundTripCase
    /\ au.earlier # <<>>
    /\ au.out.op = "read_audit_log"
    /\ Len(au.calls) = 2
    /\ au.calls[1].method = "log_session_start" /\ au.calls[1].raised = "none"
    /\ au.calls[2].method = "log_ioc_detected" /\ Written(au.calls[2])
    /\ Len(au.out.entries) = 4

\* C17: no audit recording call ever raises to its caller: every log_*
\* method returns normally for every payload (command lists with non-string
\* elements and unserialisable data included), whether logging is enabled or
\* not and whether or not the file can be written; a failure is reported on
\* stderr only.
C17_LogNeverRaises ==
    \A i \in 1..Len(au.calls) : au.calls[i].raised = "none"

\* The part of it about _write_log holds: a call that reached _write_log
\* returned, and a failed write left one message on stderr and no record
WriteFailureSwallowed ==
    [][\A c \in LogCalls :
          (Log(c[1], c[2], c[3]) /\ log_data(au, c[1], c[2], c[3]).raised = "none") =>
              /\ au'.calls[Len(au'.calls)].raised = "none"
              /\ (au.enabled /\ (~au.writable \/ ~Serialisable(log_data(au, c[1], c[2], c[3]).data)))
                    => (au'.stderr = au.stderr + 1 /\ au'.file = au.file)]_vars

\* A well-formed record: a JSON object with the event_type and data fields
WellFormed(entry) ==
    entry.t = "dict" /\ HasKey(entry, "event_type") /\ HasKey(entry, "data")

\* The well-formed records of a file, in file order
RECURSIVE RecordsOf(_)
RecordsOf(lines) ==
    IF lines = <<>> THEN <<>>
    ELSE IF IsJsonText(lines[1]) /\ WellFormed(json_loads(lines[1][1].json))
    THEN <<json_loads(lines[1][1].json)>> \o RecordsOf(Tail(lines))
    ELSE RecordsOf(Tail(lines))

RecordsOfType(file, event_type) ==
    SelectSeq(RecordsOf(Lines(file)),
              LAMBDA entry : GetItem(entry, "event_type") = PyStr(event_type))

SearchedType ==
    CHOOSE event_type \in SearchTypes : au.out.op = "search_audit_log:" \o event_type

\* C18: the readers skip malformed lines instead of aborting: read_audit_log,
\* search_audit_log and monitor_audit_log return every well-formed record of
\* the file (the monitor: every IOC_DETECTED record) whatever malformed lines
\* lie between them (text that is not JSON, blank lines, JSON values that are
\* not objects, objects lacking data or event_type), and none raises or stops
\* early because of such a line.
C18_ReadersSkipMalformed ==
    /\ au.out.raised = "none"
    /\ au.out.op = "read_audit_log" =>
          SelectSeq(au.out.entries, WellFormed) = RecordsOf(Lines(au.file))
    /\ au.out.op \in {"search_audit_log:" \o event_type : event_type \in SearchTypes} =>
          SelectSeq(au.out.entries, WellFormed) = RecordsOfType(au.file, SearchedType)
    /\ au.out.op = "monitor_audit_log" =>
          SelectSeq(au.out.entries, WellFormed) = RecordsOfType(au.file, "IOC_DETECTED")

\* The part of it about read_audit_log holds
ReadSkipsMalformed ==
    au.out.op = "read_audit_log" =>
        /\ au.out.raised = "none"
        /\ SelectSeq(au.out.entries, WellFormed) = RecordsOf(Lines(au.file))

IsPrefix(a, b) == Len(a) <= Len(b) /\ SubSeq(b, 1, Len(a)) = a

RECURSIVE IsSubSeq(_, _)
IsSubSeq(a, b) ==
    IF a = <<>> THEN TRUE
    ELSE IF b = <<>> THEN FALSE
    ELSE IF a[1] = b[1] THEN IsSubSeq(Tail(a), Tail(b))
    ELSE IsSubSeq(a, Tail(b))

\* The complete records of the followed file, in append order
FileRecords == read_entries(Lines(fol.file))
\* The follower is in its polling loop and has read all that was appended
CaughtUp ==
    fol.state \in {"follow", "sleeping"} /\ fol.inflight = "" /\ fol.pos = Len(fol.file)

\* C19: in follow mode monitor_audit_log reports the IOC_DETECTED records
\* already in the log and then polls without returning on its own; every
\* IOC_DETECTED record appended afterwards is reported exactly once and in
\* append order (once the follower has read up to the end of the file, all of
\* them are reported); on KeyboardInterrupt the call stops and returns the
\* events collected so far.
C19_FollowReportsAppended ==
    /\ fol.state = "returned" => fol.cancelled
    /\ IsPrefix(fol.events, SelectSeq(FileRecords, IsIoc))
    /\ CaughtUp => fol.events = SelectSeq(FileRecords, IsIoc)
    /\ fol.cancelled => fol.state = "returned"

\* Every record was appended in one piece and read whole, and every
\* IOC_DETECTED record has a dict as its data
WholeAndWellFormed ==
    /\ ~fol.partial
    /\ \A s \in Sessions : \A i \in 1..Len(fol.wrote[s]) :
          GetItem(fol.wrote[s][i], "data").t = "dict"

\* C19 holds of the runs in which no line was read half-written and no
\* IOC_DETECTED record has data that is not a dict
FollowReportsWholeRecords ==
    WholeAndWellFormed =>
        /\ fol.state = "returned" => fol.cancelled
        /\ IsPrefix(fol.events, SelectSeq(FileRecords, IsIoc))
        /\ CaughtUp => fol.events = SelectSeq(FileRecords, IsIoc)

\* The records some session wrote, or that were in the file before
WrittenBy(entry) == {s \in Sessions : \E i \in 1..Len(fol.wrote[s]) : fol.wrote[s][i] = entry}
ParsedOf(s) ==
    SelectSeq(fol.parsed, LAMBDA entry : GetItem(entry, "session_id") = PyStr(s))

\* C20: while several sessions append to the file and a follower reads it,
\* every line the follower parses is one complete record written by exactly
\* one session, no complete record is lost by a follower that saw it
\* half-written (once it has read up to the end of the file it has parsed
\* every record), and the records of one session are parsed in the order the
\* session wrote them.
C20_FollowerSeesWholeRecords ==
    /\ \A i \in 1..Len(fol.parsed) :
          \/ Cardinality(WrittenBy(fol.parsed[i])) = 1
          \/ \E h \in 1..Len(FileRecords) : h <= i /\ FileRecords[h] = fol.parsed[i]
    /\ CaughtUp => fol.parsed = FileRecords
    /\ \A s \in Sessions : IsSubSeq(ParsedOf(s), fol.wrote[s])

\* The parts of it about whole lines and about the order within a session
\* hold
ParsedLinesAreWholeRecords ==
    /\ \A i \in 1..Len(fol.parsed) :
          \/ Cardinality(WrittenBy(fol.parsed[i])) = 1
          \/ \E h \in 1..Len(FileRecords) : h <= i /\ FileRecords[h] = fol.parsed[i]
    /\ \A s \in Sessions : IsSubSeq(ParsedOf(s), fol.wrote[s])

\* The 1-based numbers of the lines of the scanned file that match the
\* print-call pattern (none when the path cannot be read as a file)
MatchingLines ==
    IF sn.target.kind = "file" /\ sn.target.readable
    THEN {n \in 1..Len(sn.target.lines) : PRINT_PATTERN_search(sn.target.lines[n])}
    ELSE {}

OneFindingPerMatchingLine ==
    /\ Len(sn.out.findings) = Cardinality(MatchingLines)
    /\ \A i \in 1..Len(sn.out.findings) :
          /\ sn.out.findings[i].line \in MatchingLines
          /\ sn.out.findings[i].severity = "CRITICAL"
          /\ sn.out.findings[i].file = sn.path
          /\ i > 1 => sn.out.findings[i - 1].line < sn.out.findings[i].line

\* C21: scan_file returns exactly one finding for each line of the file that
\* matches the print-call pattern, in increasing line order, each with
\* severity CRITICAL, the file path and the 1-based line number (an empty
\* list when no line matches); a finding does not stop the scan of the
\* remaining lines; ioc_count grows by exactly the number of findings.
C21_ScanFileFindings ==
    sn.out.op = "scan_file" =>
        /\ OneFindingPerMatchingLine
        /\ sn.ioc_count = sn.before + Len(sn.out.findings)

\* It holds of every scan whose alert_callback returns, and the count of
\* ioc_count holds of every scan
ScanFileFindingsIfAlertReturns ==
    sn.out.op = "scan_file" =>
        /\ sn.callback = "default" => OneFindingPerMatchingLine
        /\ sn.ioc_count = sn.before + Len(sn.out.findings)

\* C22: every finding of an integrity scan (scan_file, scan_directory) is,
\* besides being returned, appended to the audit log as one IOC_DETECTED
\* record with severity CRITICAL.
C22_FindingsRecorded ==
    sn.out.op \in {"scan_file", "scan_directory"} =>
        LET records == SelectSeq(sn.audit, IsIoc)
        IN  /\ Len(records) = Len(sn.out.findings)
            /\ \A i \in 1..Len(records) :
                  GetItem(GetItem(records[i], "data"), "SEVERITY") = PyStr("CRITICAL")

\* The record a denial is to leave in the audit log
DenialRecord(d) ==
    IF d.gate = "import"
    THEN [event_type |-> "blocked_import", what |-> d.what, mode |-> ""]
    ELSE IF d.gate = "command"
    THEN [event_type |-> "blocked_subprocess", what |-> d.what, mode |-> ""]
    ELSE [event_type |-> "filesystem_denied", what |-> d.what, mode |-> d.mode]

Denials == SelectSeq(dec.decisions, LAMBDA d : d.denied)

\* C23: every denial decision appends exactly one audit record and an allow
\* decision appends none: a denied import appends blocked_import, a denied
\* command blocked_subprocess with command and reason, a denied file open
\* filesystem_denied with path, mode and policy mode.
C23_DenialsAudited ==
    /\ Len(dec.audit) = Len(Denials)
    /\ \A i \in 1..Len(Denials) : dec.audit[i] = DenialRecord(Denials[i])

\* The part of it about allow decisions holds
AllowAppendsNothing ==
    [][~dec'.decisions[Len(dec'.decisions)].denied => dec'.audit = dec.audit]_vars

ScanModes == {"--scan-file", "--scan-dir", "--monitor-log", "--verify-worm-source"}

\* What the mode was to scan is missing
ScanTargetMissing ==
    \/ sn.out.op \in {"--scan-file", "--scan-dir"} /\ sn.target.kind = "missing"
    \/ sn.out.op = "--monitor-log" /\ sn.log.kind = "missing"
    \/ sn.out.op = "--verify-worm-source" /\ sn.worm_src.kind = "missing"

\* What the mode was to scan was read
ScanTargetRead ==
    \/ sn.out.op = "--scan-file" /\ sn.target.kind = "file" /\ sn.target.readable
    \/ sn.out.op = "--scan-dir" /\ sn.target.kind = "dir"
          /\ \A i \in 1..Len(sn.target.entries) :
                sn.target.entries[i].is_file => sn.target.entries[i].readable
    \/ sn.out.op = "--monitor-log" /\ sn.log.kind = "file"
    \/ sn.out.op = "--verify-worm-source" /\ sn.worm_src.kind = "dir"

\* C24: the monitor's scan commands exit 1 if and only if at least one IoC
\* was found, exit 0 only when the target was actually read and is clean, and
\* exit 2 when the file, directory or log to scan does not exist. (The
\* launcher's part, exit 2 for a missing script and 0 on normal completion,
\* is LauncherExitCodes.)
C24_ExitCodes ==
    sn.out.op \in ScanModes =>
        /\ sn.out.exit = 1 <=> sn.out.found > 0
        /\ sn.out.exit = 0 => ScanTargetRead
        /\ ScanTargetMissing => sn.out.exit = 2

\* The part of it about exit code 1 holds
ExitOneIffFound ==
    sn.out.op \in ScanModes => (sn.out.exit = 1 <=> sn.out.found > 0)

\* C26: the untampered enforcement codebase (every .py file under src/worm)
\* holds no line matching the monitor's print-call pattern, so
\* --verify-worm-source on the shipped source reports zero findings and
\* exits 0.
C26_ShippedSourceIsPrintFree ==
    /\ (sn.out.op = "--verify-worm-source" /\ sn.worm_src = WormSource) =>
          sn.out.found = 0 /\ sn.out.exit = 0
    /\ (sn.out.op = "scan_directory" /\ sn.target = WormSource
           /\ sn.callback = "default") => sn.out.findings = <<>>

\* C25: in every launcher mode that runs user code (REPL, -c, -m, script),
\* setup_worm_environment has completed before the first statement of user
\* code executes: at that point the import blocker is first on the meta
\* path, sys.modules['subprocess'] is the restricted module and WORM_PYTHON
\* is '1'; --help, --info and --version run no user code and exit 0.
C25_SetupBeforeUserCode ==
    /\ ln.pc \in {"user", "running"} =>
          /\ ly.meta_path[1] = "NetworkModuleBlocker"
          /\ ly.subprocess = "restricted"
          /\ ln.env = "1"
    /\ ln.first # NotRun =>
          /\ ln.argv.mode \in {"repl", "-c", "-m", "script"}
          /\ ln.first = [blocker_first |-> TRUE, subprocess |-> "restricted", env |-> "1"]
    /\ (ln.argv.mode \in {"--help", "--info", "--version"} /\ ln.pc = "exited") =>
          ln.exit = 0 /\ ln.first = NotRun

\* A script given on the command line has run its first statement, in a
\* process that had WORM_PYTHON=0 in its environment
C25_Witness ==
    /\ ln.argv.mode = "script"
    /\ ln.pc = "running"
    /\ ln.first.blocker_first

\* The launcher's exit codes: 2 when the script path does not exist, 0 when
\* the user code returns
LauncherExitCodes ==
    /\ (ln.pc = "exited" /\ ln.argv.mode = "script" /\ ln.argv.script = "missing") =>
          ln.exit = 2
    /\ [][(ln.pc = "running" /\ UserCodeEnds(0)) => ln'.exit = 0]_vars

\* C27: for every command the command check allows, each wrapper invokes
\* the corresponding real subprocess primitive exactly once with the
\* caller's positional and keyword arguments unchanged and returns that
\* primitive's result, or propagates its exception, unmodified.
C27_AllowedPassesThrough ==
    (sp.op \in Wrappers /\ check_command_safety(sp.cmd) = "None")
    => /\ Len(sp.real_calls) = 1
       /\ sp.real_calls[1].fn = sp.op
       /\ IF sp.style = "positional"
          THEN sp.real_calls[1].args = <<sp.cmd>> /\ sp.real_calls[1].kwargs = NoCmd
          ELSE sp.real_calls[1].args = <<>> /\ sp.real_calls[1].kwargs = sp.cmd
       /\ sp.result = sp.real_calls[1].outcome

\* check_output(args=['echo', 'hi']) was allowed and the primitive raised
C27_Witness ==
    /\ sp.op = "check_output"
    /\ sp.style = "keyword"
    /\ sp.cmd = ListCmd(<<"echo", "hi">>)
    /\ sp.result = "CalledProcessError"
    /\ Len(sp.real_calls) = 1

\* What get_restriction_status reports of a builtin
StatusOf(name) ==
    IF name = "eval" THEN get_restriction_status(ly).eval_restricted
    ELSE IF name = "exec" THEN get_restriction_status(ly).exec_restricted
    ELSE get_restriction_status(ly).compile_restricted

\* The builtins a call at this level replaces
ReplacedAt(level) ==
    IF level = "strict" THEN {"eval", "exec", "compile"}
    ELSE IF level = "moderate" THEN {"eval", "exec"} ELSE {"eval"}

\* C28: enable_restricted_builtins replaces eval, exec and compile at
\* 'strict', eval and exec at 'moderate' and eval only at 'minimal'; every
\* call of a replaced builtin raises RestrictedBuiltinsError; across any
\* sequence of enable calls a builtin once restricted stays restricted until
\* disable_restricted_builtins is called; get_restriction_status reports
\* exactly the restricted ones.
C28_RestrictedBuiltins ==
    /\ [][\A level \in Levels : EnableRestrictedBuiltins(level) =>
              \A name \in {"eval", "exec", "compile"} :
                  /\ name \in ReplacedAt(level) =>
                        builtin_call(ly', name) = "RestrictedBuiltinsError"
                  /\ name \notin ReplacedAt(level) =>
                        builtin_call(ly', name) = builtin_call(ly, name)]_vars
    /\ [][\A name \in {"eval", "exec", "compile"} :
              builtin_call(ly, name) = "RestrictedBuiltinsError" =>
                  \/ builtin_call(ly', name) = "RestrictedBuiltinsError"
                  \/ DisableRestrictedBuiltins]_vars
    /\ [](\A name \in {"eval", "exec", "compile"} :
              StatusOf(name) <=> (builtin_call(ly, name) = "RestrictedBuiltinsError"))

\* After 'strict' and then 'minimal', with no disable between them, compile
\* is still restricted
C28_Witness ==
    /\ ly.eval = "restricted"
    /\ ly.exec = "restricted"
    /\ ly.compile = "restricted"
    /\ get_restriction_status(ly).compile_restricted

\* The name is in BLOCKED_MODULES or is a dotted sub-name of a member
BlockedName(name) ==
    \E blocked \in BLOCKED_MODULES :
        \/ name = blocked
        \/ (Len(name) > Len(blocked)
              /\ SubSeq(name, 1, Len(blocked) + 1) = blocked \o ".")

\* C29: after any sequence of install_import_restrictions calls and import
\* attempts, once the restrictions are installed, sys.modules holds no name
\* that is in BLOCKED_MODULES or a dotted sub-name of one, a
\* NetworkModuleBlocker is the first finder on sys.meta_path, and every
\* import of a blocked name raises ImportError, even when that module had
\* been loaded before the first install.
C29_NoBlockedModuleLoaded ==
    Blockers(sm.meta_path) > 0 =>
        /\ \A name \in sm.modules : ~BlockedName(name)
        /\ sm.meta_path[1] = "NetworkModuleBlocker"
        /\ (sm.last.installed /\ BlockedName(sm.last.name)) =>
              sm.last.result = "WormImportError"

\* http.client and its sub-name-only sibling http.cookies were loaded, the
\* restrictions were then installed twice, and import http.cookies raised
C29_Witness ==
    /\ Blockers(sm.meta_path) = 2
    /\ sm.last = [name |-> "http.cookies", result |-> "WormImportError",
                  installed |-> TRUE]
    /\ "_socket" \in sm.modules
    /\ "urllib.parse" \notin sm.modules

\* What get_sandbox_status reports as 'enabled'
get_sandbox_status_enabled(l) ==
    IF l.sandbox # 0 THEN l.sandboxes[l.sandbox].enabled ELSE FALSE

\* C30: after any interleaving of enable and disable calls on
\* FilesystemSandbox instances, of enable_filesystem_sandbox and
\* disable_filesystem_sandbox, and of enable_restricted_builtins and
\* disable_restricted_builtins, a sandbox reports enabled = True (get_status,
\* get_sandbox_status) if and only if an open through builtins.open is
\* checked against that sandbox's policy.
C30_EnabledIffEnforcing ==
    /\ \A i \in 1..Len(ly.sandboxes) :
          ly.sandboxes[i].enabled <=> (i \in HookChain(ly, ly.open))
    /\ get_sandbox_status_enabled(ly) <=>
          (ly.sandbox # 0 /\ ly.sandbox \in HookChain(ly, ly.open))

\* What does hold: the hook that builtins.open is belongs to a sandbox
\* whose mode is not 'disabled'
OpenIsAnActiveModeHook ==
    ly.open # 0 => ly.sandboxes[ly.open].mode # "disabled"

====
